---- MODULE Spec2Model ----
(***************************************************************************)
(* State-machine model of the SQLite-4.0 core engine (class SQLite4):      *)
(* execute() and its statement handlers over the in-memory `tables` map,   *)
(* the role based permission check, user registration and the query log.   *)
(*                                                                         *)
(* SQL texts are modelled by the captures the handlers' regular            *)
(* expressions take from them (table name, column list, value list, ...).  *)
(*                                                                         *)
(* Three specifications share the actions:                                 *)
(*   Spec      - every kind of caller, one statement of each kind on t     *)
(*   SpecStore - the trusted local caller, every statement form and name   *)
(*   SpecLog   - runs long enough to fill the query log                    *)
(***************************************************************************)
EXTENDS Integers, Sequences, FiniteSets, TLC

VARIABLES
    tables,     \* this.tables : Map key -> array of rows | schema object
    users,      \* this.users  : Map username -> user record
    roles,      \* this.roles  : Map role name -> permissions
    queryLog,   \* this.queryLog : array of logged calls
    calls,      \* number of execute() calls made so far
    last,       \* the last execute() call: its arguments and its result
    files,      \* the file system: path -> content of the file
    cache,      \* a Cache object: this.cache (in insertion order), this.stats
    now,        \* the clock, Date.now()
    builder,    \* a QueryBuilder object and the calls chained on it
    returned,   \* what the last call of a method other than execute() returned
    pool,       \* a ConnectionPool object, its callers and its callbacks due
    server,     \* a SQLite4Server object and the sockets of its connections
    client,     \* a SQLite4Client object, its promises and its socket
    slave,      \* a SQLite4Replication object in slave mode: sockets, timers
    migration   \* a Migration object, its directory and its run of migrate()

vars == <<tables, users, roles, queryLog, calls, last,
          files, cache, now, builder, returned, pool, server, client,
          slave, migration>>

\* the state of the SQLite4 object, and the state outside it
database == <<tables, users, roles, queryLog, calls, last>>
others == <<slave, migration>>
services == <<pool, server, client, others>>
outside == <<files, cache, now, builder, returned, services>>

(***************************************************************************)
(* Bounds of the model.                                                    *)
(***************************************************************************)
MaxCalls == 5
MaxStoreCalls == 5
MaxLogCalls == 1003
MaxQueryCalls == 5
MaxAuthCalls == 2
MaxCacheCalls == 5
MaxNow == 3
MaxBuilderCalls == 4
MaxSnapshotCalls == 2
MaxAcquires == 3
MaxConnections == 3
MaxCommands == 1
MaxRequests == 2
MaxSockets == 3
MaxPolls == 2
MaxMigrates == 2

(***************************************************************************)
(* JavaScript values stored in rows and passed as parameters.              *)
(***************************************************************************)
Num(i) == [t |-> "num", n |-> i, s |-> ""]
Str(x) == [t |-> "str", n |-> 0, s |-> x]
Undefined == [t |-> "undefined", n |-> 0, s |-> ""]
NaN == [t |-> "nan", n |-> 0, s |-> ""]

\* params[idx] with a 0-based index; out of range reads undefined
ParamAt(params, idx) ==
    IF idx + 1 \in 1..Len(params) THEN params[idx + 1] ELSE Undefined

(***************************************************************************)
(* A row is a JavaScript object: keys in creation order.                   *)
(***************************************************************************)
RowKeys(row) == {row[i].k : i \in 1..Len(row)}

RowHas(row, key) == key \in RowKeys(row)

RowGet(row, key) ==
    IF RowHas(row, key)
    THEN row[CHOOSE i \in 1..Len(row) : row[i].k = key].v
    ELSE Undefined

\* row[key] = val : an existing key keeps its position, a new one is appended
RowSet(row, key, val) ==
    IF RowHas(row, key)
    THEN [i \in 1..Len(row) |->
            IF row[i].k = key THEN [k |-> key, v |-> val] ELSE row[i]]
    ELSE Append(row, [k |-> key, v |-> val])

(***************************************************************************)
(* Entries of this.tables.  A table name maps to an array of rows; the     *)
(* key '_schema_' + name maps to the schema object of table `name`.        *)
(* lengthSet records a `length` property assigned to a schema object.      *)
(***************************************************************************)
ArrayEntry(rows) ==
    [isArray |-> TRUE, rows |-> rows, schema |-> <<>>, lengthSet |-> FALSE]

SchemaEntry(schema) ==
    [isArray |-> FALSE, rows |-> <<>>, schema |-> schema, lengthSet |-> FALSE]

SchemaKey(tableName) == "_schema_" \o tableName

MapSet(map, key, val) ==
    [k \in DOMAIN map \cup {key} |-> IF k = key THEN val ELSE map[k]]

MapDelete(map, key) == [k \in DOMAIN map \ {key} |-> map[k]]

EmptyMap == [k \in {} |-> 0]

(***************************************************************************)
(* SQL statements, as the handlers' regular expressions decompose them.    *)
(*   kind      : the prefix execute() dispatches on                        *)
(*   matches   : whether the handler's regular expression matches          *)
(*   tableName : the (\w+) capture naming the table                        *)
(*   columns   : SELECT projection / INSERT column list, split on ','      *)
(*   values    : INSERT value list, split on ',' and trimmed               *)
(*   defs      : CREATE TABLE column definitions, split on ','             *)
(*   setPairs  : UPDATE assignments, split on ',' and then on '='          *)
(*   where     : the WHERE capture                                         *)
(*   username  : the quoted grantee of GRANT                               *)
(*   ifClause  : the text carries IF NOT EXISTS / IF EXISTS after TABLE    *)
(*   isText    : the sql argument is a string                              *)
(***************************************************************************)
\* A value text of the statement: ? or a literal, 'quoted' or not
Tok(quoted, text) == [quoted |-> quoted, text |-> text]
QMark == Tok(FALSE, "?")
Lit(text) == Tok(TRUE, text)

\* val === '?'
IsPlaceholder(tok) == ~tok.quoted /\ tok.text = "?"

\* val.replace(/^'/, '').replace(/'$/, '') : the literal's text as a string
StripQuotes(tok) == Str(tok.text)

ColDef(name, declared, pk, ai) ==
    [name |-> name, declared |-> declared, pk |-> pk, ai |-> ai]

SetPair(col, hasVal, val) == [col |-> col, hasVal |-> hasVal, val |-> val]

\* WHERE <col> <op> <literal> ; rhs is the literal's value or WherePlaceholder,
\* list holds the texts of an IN list, conn and more a second atom
NoWhere ==
    [present |-> FALSE, col |-> "", op |-> "", rhs |-> Undefined,
     list |-> <<>>, conn |-> "", more |-> <<>>]
WherePlaceholder == [t |-> "?", n |-> 0, s |-> ""]
Where(col, op, rhs) ==
    [present |-> TRUE, col |-> col, op |-> op, rhs |-> rhs,
     list |-> <<>>, conn |-> "", more |-> <<>>]
\* <col> LIKE '<pattern>'
WhereLike(col, pattern) == Where(col, "LIKE", Str(pattern))
\* <col> IN (<list>)
WhereIn(col, list) == [Where(col, "IN", Undefined) EXCEPT !.list = list]
\* <first> AND <second>, <first> OR <second> : conn is "AND" or "OR"
WhereJoin(first, conn, second) == [first EXCEPT !.conn = conn, !.more = <<second>>]

Stmt(kind, matches, tableName, columns, values, defs, setPairs, where, username) ==
    [kind |-> kind, matches |-> matches, tableName |-> tableName,
     columns |-> columns, values |-> values, defs |-> defs,
     setPairs |-> setPairs, where |-> where, username |-> username,
     ifClause |-> FALSE, isText |-> TRUE,
     orderBy |-> "", dir |-> "", hasLimit |-> FALSE, limit |-> 0]

SelectStmt(tableName, where) ==
    Stmt("SELECT", TRUE, tableName, <<"*">>, <<>>, <<>>, <<>>, where, "")
\* SELECT * FROM <tableName> ORDER BY <orderBy> [<dir>] : dir is "", "ASC" or "DESC"
SelectOrderStmt(tableName, orderBy, dir) ==
    [SelectStmt(tableName, NoWhere) EXCEPT !.orderBy = orderBy, !.dir = dir]
\* <select> LIMIT <limit>
WithLimit(select, limit) == [select EXCEPT !.hasLimit = TRUE, !.limit = limit]
InsertStmt(tableName, columns, values) ==
    Stmt("INSERT", TRUE, tableName, columns, values, <<>>, <<>>, NoWhere, "")
UpdateStmt(tableName, setPairs, where) ==
    Stmt("UPDATE", TRUE, tableName, <<>>, <<>>, <<>>, setPairs, where, "")
DeleteStmt(tableName, where) ==
    Stmt("DELETE", TRUE, tableName, <<>>, <<>>, <<>>, <<>>, where, "")
CreateStmt(tableName, defs) ==
    Stmt("CREATE TABLE", TRUE, tableName, <<>>, <<>>, defs, <<>>, NoWhere, "")
\* CREATE TABLE IF NOT EXISTS name (...): /CREATE\s+TABLE\s+(\w+)\s*\((.+)\)/
\* takes IF for (\w+) and then finds NOT where it needs '(' : no match
CreateIfNotExistsStmt(tableName, defs) ==
    [CreateStmt(tableName, defs) EXCEPT !.matches = FALSE, !.ifClause = TRUE]
DropStmt(tableName) ==
    Stmt("DROP TABLE", TRUE, tableName, <<>>, <<>>, <<>>, <<>>, NoWhere, "")
\* DROP TABLE IF EXISTS name: /DROP\s+TABLE\s+(?:IF\s+EXISTS\s+)?(\w+)/
\* skips the clause and captures the name
DropIfExistsStmt(tableName) ==
    [DropStmt(tableName) EXCEPT !.ifClause = TRUE]
GrantStmt(matches, username) ==
    Stmt("GRANT", matches, "", <<>>, <<>>, <<>>, <<>>, NoWhere, username)
RevokeStmt ==
    Stmt("REVOKE", TRUE, "", <<>>, <<>>, <<>>, <<>>, NoWhere, "")
OtherStmt ==
    Stmt("OTHER", FALSE, "", <<>>, <<>>, <<>>, <<>>, NoWhere, "")
NoStmt ==
    Stmt("", FALSE, "", <<>>, <<>>, <<>>, <<>>, NoWhere, "")
\* a text that starts like `stmt` and that the handler's expression rejects
Malformed(stmt) == [stmt EXCEPT !.matches = FALSE]
\* execute(null): an sql argument that is not a string
NotText ==
    [Stmt("NOT TEXT", FALSE, "", <<>>, <<>>, <<>>, <<>>, NoWhere, "")
        EXCEPT !.isText = FALSE]

(***************************************************************************)
(* The caller identity passed to execute(): null, or an object with a role *)
(* (role "" stands for an object without a role property).                 *)
(***************************************************************************)
NoUser == [isNull |-> TRUE, role |-> ""]
Caller(role) == [isNull |-> FALSE, role |-> role]

(***************************************************************************)
(* ExecuteResult.  Absent properties are Undefined / empty.                *)
(* executionTime is left out: it is wall-clock time.                       *)
(***************************************************************************)
Failure(message) ==
    [success |-> FALSE, type |-> "", error |-> message, table |-> "",
     rows |-> <<>>, columns |-> <<>>, rowCount |-> Undefined,
     lastInsertRowid |-> Undefined, changes |-> Undefined]

Success(type) ==
    [success |-> TRUE, type |-> type, error |-> "", table |-> "",
     rows |-> <<>>, columns |-> <<>>, rowCount |-> Undefined,
     lastInsertRowid |-> Undefined, changes |-> Undefined]

NoResult == Failure("")

\* What a handler leaves behind: the result it returns, or the error it
\* throws (threw), and the maps as they are when it returns or throws
Outcome(result, tbls, usrs) ==
    [result |-> result, tables |-> tbls, users |-> usrs,
     threw |-> FALSE, error |-> ""]
\* throw new Error(message), or a TypeError raised by the runtime, after the
\* handler has brought the tables to tbls
ThrowAfter(message, tbls) ==
    [result |-> NoResult, tables |-> tbls, users |-> users,
     threw |-> TRUE, error |-> message]
Throw(message) == ThrowAfter(message, tables)

PermissionDenied(verb) == "Permission denied: " \o verb
TableNotFound(tableName) == "Table '" \o tableName \o "' does not exist"
TableExists(tableName) == "Table '" \o tableName \o "' already exists"
InvalidSyntax(what) == "Invalid " \o what \o " syntax"
TypeError == "TypeError"

(***************************************************************************)
(* WHERE evaluation.  The clause is not parsed: every key of the row is    *)
(* replaced, as a whole word and everywhere in the text, by the row's      *)
(* value (put between quotes when it is a string) and the resulting text   *)
(* is handed to eval().  A clause is modelled as one atom <col> <op> <rhs> *)
(* or two atoms joined by AND / OR.  The strings of the model are single   *)
(* words that contain neither "and" nor "or", except Payload and           *)
(* InjectedText, which contain no column name.                             *)
(***************************************************************************)
\* a stored string that closes the quote put around it and calls the engine
Payload == "' + this.tables.clear() + '"
\* a stored string that closes the quote put around it and is not an expression
InjectedText == "'); DROP TABLE x; --"

\* how the text 's' reads as JavaScript, for the strings of the model
Quoting(s) ==
    CASE s = Payload -> "code"
      [] s = InjectedText -> "broken"
      [] OTHER -> "literal"

\* Number(string) for the strings of the model
StrToNumber(x) ==
    CASE x = "" -> Num(0)
      [] x = "0" -> Num(0)
      [] x = "1" -> Num(1)
      [] x = "2" -> Num(2)
      [] x = "3" -> Num(3)
      [] x = "25" -> Num(25)
      [] x = "26" -> Num(26)
      [] x = "30" -> Num(30)
      [] x = "31" -> Num(31)
      [] OTHER -> NaN

ToNumber(v) ==
    CASE v.t = "num" -> v
      [] v.t = "str" -> StrToNumber(v.s)
      [] OTHER -> NaN

\* String(n) for n >= 0
RECURSIVE NumText(_)
NumText(n) ==
    LET digit == <<"0", "1", "2", "3", "4", "5", "6", "7", "8", "9">>
    IN IF n < 10 THEN digit[n + 1]
       ELSE NumText(n \div 10) \o digit[(n % 10) + 1]

\* String(value) : the text a value that is not a string is replaced by
ToText(v) ==
    CASE v.t = "num" -> NumText(v.n)
      [] v.t = "str" -> v.s
      [] v.t = "nan" -> "NaN"
      [] OTHER -> "undefined"

\* code-unit order of the strings of the model
StringOrder == <<"", Payload, InjectedText, "0", "1", "2", "25", "26", "3",
                 "30", "31", "A%", "Al", "Alice", "Bob", "age", "k", "p", "q",
                 "undefined", "x", "y", "z">>
StrRank(x) == CHOOSE i \in 1..Len(StringOrder) : StringOrder[i] = x

\* a == b
LooseEq(a, b) ==
    CASE a.t = "str" /\ b.t = "str" -> a.s = b.s
      [] a.t = "undefined" \/ b.t = "undefined" -> a.t = b.t
      [] OTHER -> /\ ToNumber(a).t = "num"
                  /\ ToNumber(b).t = "num"
                  /\ ToNumber(a).n = ToNumber(b).n

\* a === b
StrictEq(a, b) == a.t = b.t /\ a.t # "nan" /\ a = b

\* a < b
LessThan(a, b) ==
    IF a.t = "str" /\ b.t = "str"
    THEN StrRank(a.s) < StrRank(b.s)
    ELSE /\ ToNumber(a).t = "num"
         /\ ToNumber(b).t = "num"
         /\ ToNumber(a).n < ToNumber(b).n

\* a <= b
LessEq(a, b) ==
    IF a.t = "str" /\ b.t = "str"
    THEN StrRank(a.s) <= StrRank(b.s)
    ELSE /\ ToNumber(a).t = "num"
         /\ ToNumber(b).t = "num"
         /\ ToNumber(a).n <= ToNumber(b).n

\* new RegExp(pattern.replace(/%/g, '.*'), 'i').test(text), for the pattern
\* 'A%' of the model: the text has a letter a somewhere
LikeTest(pattern, text) ==
    /\ pattern = "A%"
    /\ text \in {"A%", "Al", "Alice", "age", Payload, InjectedText}

\* What an operand of a comparison has become when eval() reads the text:
\*   value      - a literal, or a number / undefined, with value v
\*   code       - an expression that runs the payload and yields 'undefined'
\*   syntax     - text that does not parse
\*   unresolved - an identifier that names nothing in scope
\* quoted: the text stands between quotes
Operand(kind, v, quoted) == [kind |-> kind, v |-> v, quoted |-> quoted]

\* the text put in place of a word standing between quotes when the word is
\* a key of the row with value v (the quoted text is rewritten too)
Rewritten(v) ==
    IF v.t = "str" THEN Operand("syntax", v, TRUE)     \* ''...'' : quotes nest
    ELSE Operand("value", Str(ToText(v)), TRUE)

\* the keys that Object.entries(row) yields after `key`
LaterKeys(row, key) ==
    LET at == CHOOSE i \in 1..Len(row) : row[i].k = key
    IN {row[i].k : i \in (at + 1)..Len(row)}

\* the column name on the left of an atom, after the replacements;
\* v is the row's value for the column
LhsOperand(row, col, v) ==
    CASE ~RowHas(row, col) -> Operand("unresolved", Undefined, FALSE)
      [] v.t # "str" -> Operand("value", v, FALSE)
      [] Quoting(v.s) = "code" -> Operand("code", Str("undefined"), TRUE)
      [] Quoting(v.s) = "broken" -> Operand("syntax", v, TRUE)
      [] v.s \in LaterKeys(row, col) -> Rewritten(RowGet(row, v.s))
      [] OTHER -> Operand("value", v, TRUE)

\* the literal on the right of an atom, after the replacements;
\* params are not consulted: a ? stays in the text
RhsOperand(row, rhs) ==
    IF rhs.t = "?" THEN Operand("syntax", rhs, FALSE)
    ELSE IF rhs.t = "str" /\ RowHas(row, rhs.s) THEN Rewritten(RowGet(row, rhs.s))
    ELSE Operand("value", rhs, rhs.t = "str")

\* a op b, for the comparison operators of JavaScript
JsCompare(op, a, b) ==
    CASE op = "==" -> LooseEq(a, b)
      [] op = "!=" -> ~LooseEq(a, b)
      [] op = "!==" -> ~StrictEq(a, b)
      [] op = "<" -> LessThan(a, b)
      [] op = ">" -> LessThan(b, a)
      [] op = "<=" -> LessEq(a, b)
      [] op = ">=" -> LessEq(b, a)

\* .replace(/!=/g, '!==').replace(/<>/g, '!=') in _applyWhere;
\* _delete evaluates the clause as it is written
JsOperator(op, viaApplyWhere) ==
    CASE op = "!=" /\ viaApplyWhere -> "!=="
      [] op = "<>" /\ viaApplyWhere -> "!="
      [] OTHER -> op

\* val: "true", "false", "throw" (an error raised while evaluating) or
\* "syntax" (the text does not parse); ran: evaluating it ran the payload
Verdict(val, ran) == [val |-> val, ran |-> ran]
Truth(b) == IF b THEN "true" ELSE "false"

\* one atom with its operands lhs and rhs as eval() reads them.
\* viaApplyWhere: the text went through _applyWhere, which rewrites
\* AND, OR, LIKE, IN, != and <>
AtomVerdict(atom, lhs, rhs, viaApplyWhere) ==
    CASE atom.op = "=" -> Verdict("syntax", FALSE)   \* assignment to a non-reference
      [] atom.op \in {"LIKE", "IN"} ->
            \* /(\w+)\s+LIKE/ needs a word before LIKE: a quoted value is none;
            \* row[field] of the matched word is undefined
            IF ~viaApplyWhere \/ lhs.quoted THEN Verdict("syntax", FALSE)
            ELSE IF atom.op = "LIKE"
            THEN Verdict(Truth(LikeTest(atom.rhs.s, "undefined")), FALSE)
            ELSE Verdict(Truth(\E i \in 1..Len(atom.list) :
                                  atom.list[i] = "undefined"), FALSE)
      [] atom.op = "<>" /\ ~viaApplyWhere -> Verdict("syntax", FALSE)
      [] lhs.kind = "syntax" \/ rhs.kind = "syntax" -> Verdict("syntax", FALSE)
      [] lhs.kind = "unresolved" -> Verdict("throw", FALSE)   \* ReferenceError
      [] OTHER -> Verdict(Truth(JsCompare(JsOperator(atom.op, viaApplyWhere),
                                          lhs.v, rhs.v)),
                          lhs.kind = "code")

EvalAtom(row, atom, viaApplyWhere) ==
    AtomVerdict(atom, LhsOperand(row, atom.col, RowGet(row, atom.col)),
                RhsOperand(row, atom.rhs), viaApplyWhere)

\* first && second, first || second
Join(conn, first, second) ==
    LET decided == IF conn = "AND" THEN "false" ELSE "true"
    IN IF first.val = "syntax" \/ second.val = "syntax"
       THEN Verdict("syntax", FALSE)
       ELSE IF first.val \in {"throw", decided} THEN first
       ELSE Verdict(second.val, first.ran \/ second.ran)

\* eval(evalStr) for the row
EvalWhere(row, where, viaApplyWhere) ==
    IF where.conn = "" THEN EvalAtom(row, where, viaApplyWhere)
    ELSE IF ~viaApplyWhere THEN Verdict("syntax", FALSE)  \* AND, OR: no JavaScript
    ELSE Join(where.conn, EvalAtom(row, where, TRUE),
              EvalAtom(row, where.more[1], TRUE))

\* the verdict of eval() for each row; without a clause every row counts
WhereVerdicts(rows, where, viaApplyWhere) ==
    [i \in 1..Len(rows) |->
        IF where.present THEN EvalWhere(rows[i], where, viaApplyWhere)
        ELSE Verdict("true", FALSE)]

\* data.filter: the indexes of the rows for which eval() returned true
\* (catch -> false: an error counts as no match)
Matched(verdicts) == {i \in 1..Len(verdicts) : verdicts[i].val = "true"}

\* evaluating the clause over the rows ran the payload
WhereRan(verdicts) == \E i \in 1..Len(verdicts) : verdicts[i].ran

\* this.tables.clear(), the call the payload makes
PayloadEffect(tbls) == EmptyMap

\* the subsequence of rows at the indexes in keep, in order
RECURSIVE FilterRows(_, _, _)
FilterRows(rows, keep, i) ==
    IF i > Len(rows) THEN <<>>
    ELSE (IF i \in keep THEN <<rows[i]>> ELSE <<>>) \o FilterRows(rows, keep, i + 1)

(***************************************************************************)
(* Access control.                                                         *)
(***************************************************************************)
InitRoles ==
    [r \in {"admin", "operator", "readonly", "viewer"} |->
        CASE r = "admin" -> {"SELECT", "INSERT", "UPDATE", "DELETE", "CREATE",
                             "DROP", "ALTER", "GRANT", "REVOKE"}
          [] r = "operator" -> {"SELECT", "INSERT", "UPDATE", "DELETE"}
          [] r = "readonly" -> {"SELECT"}
          [] r = "viewer" -> {"SELECT"}]

\* variant: a caller without identity is refused instead of trusted
CheckPermission_NullRefused(user, permission) ==
    IF user.isNull THEN FALSE
    ELSE IF user.role = "admin" THEN TRUE
    ELSE /\ user.role \in DOMAIN roles
         /\ permission \in roles[user.role]

\* variant: a role that is not in the roles map passes the check
CheckPermission_UnknownRolePasses(user, permission) ==
    IF user.isNull THEN TRUE
    ELSE IF user.role = "admin" THEN TRUE
    ELSE \/ user.role \notin DOMAIN roles
         \/ permission \in roles[user.role]

CheckPermission(user, permission) ==
    IF user.isNull THEN TRUE
    ELSE IF user.role = "admin" THEN TRUE
    ELSE /\ user.role \in DOMAIN roles
         /\ permission \in roles[user.role]

(***************************************************************************)
(* Statement handlers.  Each yields the Outcome of the call: the result    *)
(* execute() returns (a thrown error becomes success:false in execute's    *)
(* catch) and the maps as the handler leaves them.                         *)
(***************************************************************************)
\* Object.keys(data[0] || {})
FirstRowKeys(data) ==
    IF Len(data) = 0 THEN <<>> ELSE [i \in 1..Len(data[1]) |-> data[1][i].k]

SelectRows(rows, verdicts) == FilterRows(rows, Matched(verdicts), 1)

\* data.sort((a, b) => ...) as the runtime (Node.js 14+) sorts an array of
\* fewer than 64 elements: the leading run is found with the comparison
\* function and reversed when it descends, then each later element is put
\* into the sorted prefix by binary search
Sort(data, col, dir) ==
    LET \* dir === 'DESC' ? (va > vb ? -1 : 1) : (va > vb ? 1 : -1)
        compare(a, b) ==
            IF LessThan(RowGet(b, col), RowGet(a, col))
            THEN (IF dir = "DESC" THEN -1 ELSE 1)
            ELSE (IF dir = "DESC" THEN 1 ELSE -1)
        n == Len(data)
        descending == compare(data[2], data[1]) < 0
        RECURSIVE runEnd(_)
        runEnd(r) ==
            IF r >= n THEN r
            ELSE IF descending = (compare(data[r + 1], data[r]) < 0)
            THEN runEnd(r + 1) ELSE r
        run == runEnd(2)
        start == [i \in 1..n |->
                    IF descending /\ i <= run THEN data[run + 1 - i] ELSE data[i]]
        RECURSIVE search(_, _, _, _)
        search(seq, pivot, left, right) ==
            IF left >= right THEN left
            ELSE LET mid == left + ((right - left) \div 2)
                 IN IF compare(pivot, seq[mid + 1]) < 0
                    THEN search(seq, pivot, left, mid)
                    ELSE search(seq, pivot, mid + 1, right)
        RECURSIVE insertFrom(_, _)
        insertFrom(seq, i) ==
            IF i > n THEN seq
            ELSE LET at == search(seq, seq[i], 0, i - 1)
                 IN insertFrom(SubSeq(seq, 1, at) \o <<seq[i]>>
                               \o SubSeq(seq, at + 1, i - 1)
                               \o SubSeq(seq, i + 1, n), i + 1)
    IN IF n < 2 THEN data ELSE insertFrom(start, run + 1)

\* if (orderBy) data.sort(...); if (limit) data = data.slice(0, parseInt(limit))
OrderAndLimit(data, sql) ==
    LET sorted == IF sql.orderBy = "" THEN data
                  ELSE Sort(data, sql.orderBy, sql.dir)
    IN IF sql.hasLimit /\ sql.limit < Len(sorted)
       THEN SubSeq(sorted, 1, sql.limit) ELSE sorted

\* the result _select returns for the rows `data`; ran: the WHERE clause ran
\* code of a stored value
SelectResult(sql, data, ran) ==
    Outcome([Success("select") EXCEPT
                !.columns = IF sql.columns = <<"*">> THEN FirstRowKeys(data)
                            ELSE sql.columns,
                !.rows = data,
                !.rowCount = Num(Len(data))],
            IF ran THEN PayloadEffect(tables) ELSE tables, users)

\* the result of _select once the WHERE clause has been evaluated
Selected(sql, rows, verdicts) ==
    SelectResult(sql, OrderAndLimit(SelectRows(rows, verdicts), sql),
                 WhereRan(verdicts))

Select(sql, params, user) ==
    IF ~sql.matches THEN Throw(InvalidSyntax("SELECT"))
    ELSE IF sql.tableName \notin DOMAIN tables
    THEN Throw(TableNotFound(sql.tableName))
    ELSE IF ~CheckPermission(user, "SELECT")
    THEN Throw(PermissionDenied("SELECT"))
    ELSE IF ~tables[sql.tableName].isArray
    THEN Throw(TypeError)                       \* [...object] is not iterable
    ELSE Selected(sql, tables[sql.tableName].rows,
                  WhereVerdicts(tables[sql.tableName].rows, sql.where, TRUE))

\* the value bound to the column at 0-based position idx
BoundValue(valList, params, idx) ==
    IF IsPlaceholder(valList[idx + 1])
    THEN ParamAt(params, idx)
    ELSE StripQuotes(valList[idx + 1])

\* colNames.forEach((col, idx) => row[col] = ...), from position idx on
RECURSIVE BindRow(_, _, _, _, _)
BindRow(colNames, valList, params, idx, row) ==
    IF idx >= Len(colNames) THEN row
    ELSE BindRow(colNames, valList, params, idx + 1,
                 RowSet(row, colNames[idx + 1], BoundValue(valList, params, idx)))

\* row.id = table.length + 1
NextId(rows) == Len(rows) + 1

Insert(sql, params, user) ==
    IF ~sql.matches THEN Throw(InvalidSyntax("INSERT"))
    ELSE IF sql.tableName \notin DOMAIN tables
    THEN Throw(TableNotFound(sql.tableName))
    ELSE IF ~CheckPermission(user, "INSERT")
    THEN Throw(PermissionDenied("INSERT"))
    ELSE IF Len(sql.values) < Len(sql.columns)
    THEN Throw(TypeError)                       \* undefined.replace
    ELSE IF ~tables[sql.tableName].isArray
    THEN Throw(TypeError)                       \* table.push is not a function
    ELSE LET table == tables[sql.tableName].rows
             bound == BindRow(sql.columns, sql.values, params, 0, <<>>)
             row == RowSet(bound, "id", Num(NextId(table)))
         IN Outcome([Success("insert") EXCEPT
                        !.lastInsertRowid = RowGet(row, "id"),
                        !.changes = Num(1)],
                    MapSet(tables, sql.tableName, ArrayEntry(Append(table, row))),
                    users)

\* value || params[0] : the falsy values fall through
Falsy(v) ==
    \/ v.t \in {"undefined", "nan"}
    \/ v.t = "num" /\ v.n = 0
    \/ v.t = "str" /\ v.s = ""

\* setPairs.forEach(([col, val]) => ...) on one row, from pair j on;
\* `changes` counts the assignments made so far by the statement
RECURSIVE ApplyPairs(_, _, _, _, _)
ApplyPairs(row, setPairs, params, j, changes) ==
    IF j > Len(setPairs)
    THEN [row |-> row, changes |-> changes, threw |-> FALSE]
    ELSE IF ~setPairs[j].hasVal
    THEN [row |-> row, changes |-> changes, threw |-> TRUE]   \* undefined.trim
    ELSE LET value ==
                 IF IsPlaceholder(setPairs[j].val)
                 THEN IF Falsy(ParamAt(params, changes))
                      THEN ParamAt(params, 0)
                      ELSE ParamAt(params, changes)
                 ELSE StripQuotes(setPairs[j].val)
         IN ApplyPairs(RowSet(row, setPairs[j].col, value),
                       setPairs, params, j + 1, changes + 1)

\* data.forEach(row => ...) over the matched rows, from row i on
RECURSIVE ApplyUpdates(_, _, _, _, _, _)
ApplyUpdates(rows, matched, setPairs, params, i, changes) ==
    IF i > Len(rows)
    THEN [rows |-> rows, changes |-> changes, threw |-> FALSE]
    ELSE IF i \notin matched
    THEN ApplyUpdates(rows, matched, setPairs, params, i + 1, changes)
    ELSE LET r == ApplyPairs(rows[i], setPairs, params, 1, changes)
             updated == [rows EXCEPT ![i] = r.row]
         IN IF r.threw
            THEN [rows |-> updated, changes |-> r.changes, threw |-> TRUE]
            ELSE ApplyUpdates(updated, matched, setPairs, params, i + 1, r.changes)

\* the outcome of _update once the WHERE clause has been evaluated; rows are
\* updated in place: in a map the payload has emptied they are out of reach
Updated(sql, params, rows, verdicts) ==
    LET r == ApplyUpdates(rows, Matched(verdicts), sql.setPairs, params, 1, 0)
        after == IF WhereRan(verdicts) THEN PayloadEffect(tables)
                 ELSE MapSet(tables, sql.tableName, ArrayEntry(r.rows))
    IN IF r.threw
       THEN ThrowAfter(TypeError, after)        \* val.trim() of undefined
       ELSE Outcome([Success("update") EXCEPT !.changes = Num(r.changes)],
                    after, users)

Update(sql, params, user) ==
    IF ~sql.matches THEN Throw(InvalidSyntax("UPDATE"))
    ELSE IF sql.tableName \notin DOMAIN tables
    THEN Throw(TableNotFound(sql.tableName))
    ELSE IF ~CheckPermission(user, "UPDATE")
    THEN Throw(PermissionDenied("UPDATE"))
    ELSE IF ~tables[sql.tableName].isArray
    THEN Throw(TypeError)                       \* [...object] is not iterable
    ELSE Updated(sql, params, tables[sql.tableName].rows,
                 WhereVerdicts(tables[sql.tableName].rows, sql.where, TRUE))

\* table.filter(row => { try { return !eval(..) } catch { return true } })
DeleteKeep(verdicts) == {i \in 1..Len(verdicts) : verdicts[i].val # "true"}

\* the outcome of _delete on an array once the clause has been evaluated
Deleted(sql, rows, verdicts) ==
    LET toKeep == FilterRows(rows, DeleteKeep(verdicts), 1)
    IN Outcome([Success("delete") EXCEPT
                   !.changes = Num(Len(rows) - Len(toKeep))],
               IF WhereRan(verdicts) THEN PayloadEffect(tables)
               ELSE MapSet(tables, sql.tableName, ArrayEntry(toKeep)),
               users)

\* variant: the relation is emptied before the permission check is made
Delete_ClearsBeforeCheck(sql, params, user) ==
    IF ~sql.matches THEN Throw(InvalidSyntax("DELETE"))
    ELSE IF sql.tableName \notin DOMAIN tables
    THEN Throw(TableNotFound(sql.tableName))
    ELSE IF ~CheckPermission(user, "DELETE")
    THEN ThrowAfter(PermissionDenied("DELETE"),
                    MapSet(tables, sql.tableName,
                           [tables[sql.tableName] EXCEPT !.rows = <<>>]))
    ELSE Outcome([Success("delete") EXCEPT
                    !.changes = Num(Len(tables[sql.tableName].rows))],
                 MapSet(tables, sql.tableName,
                        [tables[sql.tableName] EXCEPT !.rows = <<>>]),
                 users)

Delete(sql, params, user) ==
    IF ~sql.matches THEN Throw(InvalidSyntax("DELETE"))
    ELSE IF sql.tableName \notin DOMAIN tables
    THEN Throw(TableNotFound(sql.tableName))
    ELSE IF ~CheckPermission(user, "DELETE")
    THEN Throw(PermissionDenied("DELETE"))
    ELSE LET entry == tables[sql.tableName]
         IN IF entry.isArray
            THEN Deleted(sql, entry.rows,
                         WhereVerdicts(entry.rows, sql.where, FALSE))
            ELSE IF sql.where.present
            THEN Throw(TypeError)               \* table.filter is not a function
            ELSE \* table.length = 0 on the schema object
                 Outcome([Success("delete") EXCEPT
                            !.changes = IF entry.lengthSet THEN Num(0) ELSE NaN],
                         MapSet(tables, sql.tableName,
                                [entry EXCEPT !.lengthSet = TRUE]),
                         users)

\* parts[1].toUpperCase() for the type names of the model
UpperCase(x) ==
    CASE x = "integer" -> "INTEGER"
      [] x = "text" -> "TEXT"
      [] x = "real" -> "REAL"
      [] x = "blob" -> "BLOB"
      [] x = "select" -> "SELECT"
      [] x = "grant" -> "GRANT"
      [] x = "table" -> "TABLE"
      [] OTHER -> x

ColType(declared) ==
    IF UpperCase(declared) \in {"INTEGER", "REAL", "TEXT", "BLOB"}
    THEN UpperCase(declared)
    ELSE "TEXT"

\* cols.forEach(col => schema[colName] = {type, primary, autoIncrement})
RECURSIVE BuildSchema(_, _, _)
BuildSchema(defs, i, schema) ==
    IF i > Len(defs) THEN schema
    ELSE BuildSchema(defs, i + 1,
            RowSet(schema, defs[i].name,
                   [type |-> ColType(defs[i].declared),
                    primary |-> defs[i].pk,
                    autoIncrement |-> defs[i].ai]))

\* variant: the table is created anew whether or not the name is taken
CreateTable_Overwrites(sql, params, user) ==
    IF ~sql.matches THEN Throw(InvalidSyntax("CREATE TABLE"))
    ELSE IF ~CheckPermission(user, "CREATE")
    THEN Throw(PermissionDenied("CREATE"))
    ELSE Outcome([Success("create_table") EXCEPT !.table = sql.tableName],
                 MapSet(MapSet(tables, sql.tableName, ArrayEntry(<<>>)),
                        SchemaKey(sql.tableName),
                        SchemaEntry(BuildSchema(sql.defs, 1, <<>>))),
                 users)

CreateTable(sql, params, user) ==
    IF ~sql.matches THEN Throw(InvalidSyntax("CREATE TABLE"))
    ELSE IF ~CheckPermission(user, "CREATE")
    THEN Throw(PermissionDenied("CREATE"))
    ELSE IF sql.tableName \in DOMAIN tables
    THEN Throw(TableExists(sql.tableName))
    ELSE Outcome([Success("create_table") EXCEPT !.table = sql.tableName],
                 MapSet(MapSet(tables, sql.tableName, ArrayEntry(<<>>)),
                        SchemaKey(sql.tableName),
                        SchemaEntry(BuildSchema(sql.defs, 1, <<>>))),
                 users)

DropTable(sql, params, user) ==
    IF ~sql.matches THEN Throw(InvalidSyntax("DROP TABLE"))
    ELSE IF ~CheckPermission(user, "DROP")
    THEN Throw(PermissionDenied("DROP"))
    ELSE IF sql.tableName \notin DOMAIN tables
    THEN Throw(TableNotFound(sql.tableName))
    ELSE Outcome([Success("drop_table") EXCEPT !.table = sql.tableName],
                 MapDelete(MapDelete(tables, sql.tableName),
                           SchemaKey(sql.tableName)),
                 users)

\* a user record; GRANT registers one without a password hash
UserRecord(username, role, hasHash, hash) ==
    [username |-> username, role |-> role,
     hasPasswordHash |-> hasHash, passwordHash |-> hash]

\* variant: the grantee's record is written whether or not it exists
Grant_Overwrites(sql, params, user) ==
    IF ~sql.matches \/ user.isNull \/ user.role # "admin"
    THEN Throw(PermissionDenied("GRANT"))
    ELSE Outcome(Success("grant"), tables,
                 MapSet(users, sql.username,
                        UserRecord(sql.username, "readonly", FALSE, "")))

Grant(sql, params, user) ==
    IF ~sql.matches \/ user.isNull \/ user.role # "admin"
    THEN Throw(PermissionDenied("GRANT"))
    ELSE Outcome(Success("grant"), tables,
                 IF sql.username \notin DOMAIN users
                 THEN MapSet(users, sql.username,
                             UserRecord(sql.username, "readonly", FALSE, ""))
                 ELSE users)

Revoke(sql, params, user) ==
    IF user.isNull \/ user.role # "admin"
    THEN Throw(PermissionDenied("REVOKE"))
    ELSE Outcome(Success("revoke"), tables, users)

(***************************************************************************)
(* execute(sql, params, user)                                              *)
(***************************************************************************)
QueryLogCapacity == 1000

\* the logged record of the call made at `timestamp` (the call's ordinal);
\* its sql, params and user are those of that call
LogRecord(timestamp) == [timestamp |-> timestamp]

\* queryLog.push(..); if (length > 1000) queryLog = queryLog.slice(-1000)
\* variant: the newest records are dropped once the log is full
PushLog_KeepsOldest(log, record) ==
    LET pushed == Append(log, record)
    IN IF Len(pushed) > QueryLogCapacity
       THEN SubSeq(pushed, 1, QueryLogCapacity)
       ELSE pushed

PushLog(log, record) ==
    LET pushed == Append(log, record)
    IN IF Len(pushed) > QueryLogCapacity
       THEN SubSeq(pushed, Len(pushed) - QueryLogCapacity + 1, Len(pushed))
       ELSE pushed

Dispatch(sql, params, user) ==
    CASE sql.kind = "SELECT" -> Select(sql, params, user)
      [] sql.kind = "INSERT" -> Insert(sql, params, user)
      [] sql.kind = "UPDATE" -> Update(sql, params, user)
      [] sql.kind = "DELETE" -> Delete(sql, params, user)
      [] sql.kind = "CREATE TABLE" -> CreateTable(sql, params, user)
      [] sql.kind = "DROP TABLE" -> DropTable(sql, params, user)
      [] sql.kind = "GRANT" -> Grant(sql, params, user)
      [] sql.kind = "REVOKE" -> Revoke(sql, params, user)
      [] OTHER -> Throw("Unsupported SQL command")

\* a call that returned `result` to its caller
Call(sql, params, user, result) ==
    [sql |-> sql, params |-> params, user |-> user, result |-> result,
     escaped |-> FALSE]

\* a call that returned nothing: an exception left execute()
Escaped(sql, params, user) ==
    [Call(sql, params, user, NoResult) EXCEPT !.escaped = TRUE]

\* try { result = ...; return result } catch (error) { return { success:
\* false, error: error.message } } : what the call hands to its caller
\* variant: without the catch, an error thrown by a handler leaves execute()
Return_NoCatch(sql, params, user, out) ==
    IF out.threw THEN Escaped(sql, params, user)
    ELSE Call(sql, params, user, out.result)

Return(sql, params, user, out) ==
    IF out.threw THEN Call(sql, params, user, Failure(out.error))
    ELSE Call(sql, params, user, out.result)

\* the state a dispatched call leaves
Commit(sql, params, user, out) ==
    /\ tables' = out.tables
    /\ users' = out.users
    /\ last' = Return(sql, params, user, out)

\* execute(sql, params, user) : what it does to the database
ExecuteCall(sql, params, user) ==
    /\ queryLog' = PushLog(queryLog, LogRecord(calls + 1))
    /\ calls' = calls + 1
    /\ UNCHANGED roles
    /\ IF ~sql.isText
       THEN \* sql.trim() throws a TypeError before the try block is entered
            /\ last' = Escaped(sql, params, user)
            /\ UNCHANGED <<tables, users>>
       ELSE Commit(sql, params, user, Dispatch(sql, params, user))

Execute(sql, params, user) ==
    /\ ExecuteCall(sql, params, user)
    /\ UNCHANGED outside

(***************************************************************************)
(* addUser(username, password, role)                                       *)
(***************************************************************************)
\* sha256(password).digest('hex'), kept symbolic
Sha256(password) == "sha256(" \o password \o ")"

\* a call of `method` with the arguments `args` that returned `value`
Returned(method, args, value) ==
    [method |-> method, args |-> args, value |-> value]

\* the value null
Null == [t |-> "null", n |-> 0, s |-> ""]

AddUser(username, password, role) ==
    /\ users' = MapSet(users, username,
                       UserRecord(username, role, TRUE, Sha256(password)))
    /\ returned' = Returned("addUser", <<username, password, role>>, Undefined)
    /\ UNCHANGED <<tables, roles, queryLog, calls, last,
                   files, cache, now, builder, services>>

(***************************************************************************)
(* authenticate(username, password)                                        *)
(***************************************************************************)
\* variant: a record without a password hash lets every password in
Authenticate_NoHashPasses(username, password) ==
    /\ returned' = Returned("authenticate", <<username, password>>,
            IF username \notin DOMAIN users THEN Null
            ELSE IF /\ users[username].hasPasswordHash
                    /\ Sha256(password) # users[username].passwordHash
            THEN Null
            ELSE [username |-> users[username].username,
                  role |-> users[username].role])
    /\ UNCHANGED <<database, files, cache, now, builder, services>>

Authenticate(username, password) ==
    /\ returned' = Returned("authenticate", <<username, password>>,
            IF username \notin DOMAIN users THEN Null
            ELSE IF \/ ~users[username].hasPasswordHash  \* hash !== undefined
                    \/ Sha256(password) # users[username].passwordHash
            THEN Null
            ELSE [username |-> users[username].username,
                  role |-> users[username].role])
    /\ UNCHANGED <<database, files, cache, now, builder, services>>

(***************************************************************************)
(* Persistence: _save(), the constructor and _load() of a database with    *)
(* dbPath = DbPath.  The content of a file is a record with its form:      *)
(*   json    : JSON.stringify of { tables, roles, users }, each map turned *)
(*             into an object by Object.fromEntries                        *)
(*   aead    : the text iv:tag:text that encrypt() makes under `key` with  *)
(*             the random `iv`                                             *)
(*   sealed  : the bytes iv, tag, text that the encrypt() of backup.js     *)
(*             makes under `key` with the random `iv`                      *)
(*   gzip    : the output of gzip                                          *)
(*   backup  : a backup file, its header and its payload                   *)
(*   garbage : bytes that are none of these                                *)
(* A key is a text of 32 characters; "" is no key (null).                  *)
(***************************************************************************)
DbPath == "app.db"
Keys == {"k1", "k2"}
Ivs == {0, 1}

Garbage == [form |-> "garbage"]

\* Object.fromEntries(map)
ObjectFromEntries(map) == [kind |-> "object", entries |-> map]

\* encrypt(data, key) with the random bytes iv
Encrypt(data, key, iv) ==
    IF key = "" THEN data
    ELSE [form |-> "aead", body |-> data, key |-> key, iv |-> iv]

\* decrypt(data, key) : the data itself when there is no key, when the data
\* are not of the form iv:tag:text, and when decipher.final() throws
Decrypt(data, key) ==
    IF key = "" \/ data.form # "aead" THEN data
    ELSE IF data.key = key THEN data.body
    ELSE data

\* _save() with the random bytes iv
Save(key, iv) ==
    /\ files' = MapSet(files, DbPath,
                       Encrypt([form |-> "json",
                                tables |-> ObjectFromEntries(tables),
                                roles |-> ObjectFromEntries(roles),
                                users |-> ObjectFromEntries(users)], key, iv))
    /\ returned' = Returned("_save", <<key>>, Undefined)
    /\ UNCHANGED <<database, cache, now, builder, services>>

\* _load() on a database just constructed: the maps it leaves, and the
\* error its catch block logs ("" when none was thrown)
Load(key) ==
    LET decrypted == Decrypt(files[DbPath], key)
        fresh(message) ==
            [tables |-> EmptyMap, roles |-> InitRoles, users |-> EmptyMap,
             error |-> message]
    IN IF decrypted.form # "json"
       THEN fresh("SyntaxError")                \* JSON.parse(decrypted)
       ELSE IF decrypted.tables.kind = "object"
       THEN fresh("TypeError")                  \* new Map(object): not iterable
       ELSE [tables |-> decrypted.tables.entries,
             roles |-> decrypted.roles.entries,
             users |-> decrypted.users.entries, error |-> ""]

\* new SQLite4({ dbPath: DbPath, key }) : the object made replaces the one
\* in use; the constructor returns it, whatever _load() caught
Open(key) ==
    LET loaded == IF DbPath \in DOMAIN files THEN Load(key)
                  ELSE [tables |-> EmptyMap, roles |-> InitRoles,
                        users |-> EmptyMap, error |-> ""]
    IN /\ tables' = loaded.tables
       /\ roles' = loaded.roles
       /\ users' = loaded.users
       /\ queryLog' = <<>>
       /\ last' = Call(NoStmt, <<>>, NoUser, NoResult)
       /\ returned' = Returned("new SQLite4", <<DbPath, key>>,
                               [threw |-> FALSE, logged |-> loaded.error])
       /\ UNCHANGED <<calls, files, cache, now, builder, services>>

\* the file is overwritten by bytes that are no snapshot
Tamper ==
    /\ DbPath \in DOMAIN files
    /\ files' = MapSet(files, DbPath, Garbage)
    /\ UNCHANGED <<database, cache, now, builder, returned, services>>

(***************************************************************************)
(* SQLite4Backup (src/backup.js): backup(DbPath, BackupPath, options) and  *)
(* restore(BackupPath, RestoredPath, options) on an object made without    *)
(* options.                                                                *)
(***************************************************************************)
BackupPath == "app.bak"
RestoredPath == "restored.db"

\* what a call that threw `message` hands to its caller
Thrown(message) == [threw |-> TRUE, error |-> message]

\* backup(DbPath, BackupPath, { compress, encrypt, key }) with the random iv
Backup(compress, encrypt, key, iv) ==
    IF DbPath \notin DOMAIN files
    THEN /\ returned' = Returned("backup", <<compress, encrypt, key>>,
                                 Thrown("Failed to read source"))
         /\ UNCHANGED <<database, files, cache, now, builder, services>>
    ELSE LET source == files[DbPath]
             compressed == IF compress THEN [form |-> "gzip", body |-> source]
                           ELSE source
             data == IF encrypt /\ key # ""
                     THEN [form |-> "sealed", body |-> compressed,
                           key |-> key, iv |-> iv]
                     ELSE compressed
         IN /\ files' = MapSet(files, BackupPath,
                               [form |-> "backup",
                                header |-> [encrypted |-> encrypt,
                                            compressed |-> compress],
                                data |-> data])
            /\ returned' = Returned("backup", <<compress, encrypt, key>>,
                                    [threw |-> FALSE, error |-> ""])
            /\ UNCHANGED <<database, cache, now, builder, services>>

\* restore(BackupPath, RestoredPath, { key })
Restore(key) ==
    LET file == files[BackupPath]
        \* decipher.final() throws unless the tag verifies under the key
        opens == file.data.form = "sealed" /\ file.data.key = key
        decrypted == IF file.header.encrypted THEN file.data.body ELSE file.data
        \* gunzipSync throws on data that are not gzip data
        unzips == decrypted.form = "gzip"
        error ==
            IF file.header.encrypted /\ key = ""
            THEN "Encryption key required for encrypted backup"
            ELSE IF file.header.encrypted /\ ~opens
            THEN "Unsupported state or unable to authenticate data"
            ELSE IF file.header.compressed /\ ~unzips
            THEN "incorrect header check"
            ELSE ""
    IN /\ BackupPath \in DOMAIN files
       /\ IF error # ""
          THEN /\ returned' = Returned("restore", <<key>>, Thrown(error))
               /\ UNCHANGED files
          ELSE /\ files' = MapSet(files, RestoredPath,
                                  IF file.header.compressed THEN decrypted.body
                                  ELSE decrypted)
               /\ returned' = Returned("restore", <<key>>,
                                       [threw |-> FALSE, error |-> ""])
       /\ UNCHANGED <<database, cache, now, builder, services>>

(***************************************************************************)
(* Cache (src/cache.js): new Cache({ maxSize: MaxSize, ttl: Ttl }).        *)
(* cache.entries is this.cache, a Map, as the sequence of its entries in   *)
(* insertion order.                                                        *)
(***************************************************************************)
MaxSize == 2
Ttl == 3

NewCache ==
    [entries |-> <<>>,
     stats |-> [hits |-> 0, misses |-> 0, sets |-> 0, deletes |-> 0,
                evictions |-> 0]]

\* this.cache.has(key), this.cache.get(key), this.cache.delete(key)
CacheHas(entries, key) == \E i \in 1..Len(entries) : entries[i].key = key
CacheItem(entries, key) ==
    entries[CHOOSE i \in 1..Len(entries) : entries[i].key = key]
CacheDelete(entries, key) == SelectSeq(entries, LAMBDA e : e.key # key)

\* _getOldest() : the first entry, in iteration order, of least `expires`
GetOldest(entries) ==
    entries[CHOOSE i \in 1..Len(entries) :
                /\ \A j \in 1..Len(entries) : entries[i].expires <= entries[j].expires
                /\ \A j \in 1..(i - 1) : entries[j].expires > entries[i].expires].key

\* get(key)
CacheGet(key) ==
    /\ IF ~CacheHas(cache.entries, key)
       THEN /\ cache' = [cache EXCEPT !.stats.misses = @ + 1]
            /\ returned' = Returned("get", <<key>>, Undefined)
       ELSE IF now > CacheItem(cache.entries, key).expires
       THEN /\ cache' = [cache EXCEPT !.entries = CacheDelete(@, key),
                                      !.stats.deletes = @ + 1]
            /\ returned' = Returned("get", <<key>>, Undefined)
       ELSE /\ cache' = [cache EXCEPT !.stats.hits = @ + 1]
            /\ returned' = Returned("get", <<key>>,
                                    CacheItem(cache.entries, key).value)
    /\ UNCHANGED <<database, files, now, builder, services>>

\* this.cache.set(key, item) : a present key keeps its place in the order
CachePut(entries, key, item) ==
    IF CacheHas(entries, key)
    THEN [i \in 1..Len(entries) |->
             IF entries[i].key = key THEN item ELSE entries[i]]
    ELSE Append(entries, item)

\* set(key, value, ttl) : ttl = 0 is ttl = null, the cache's own ttl;
\* _evictOldest() deletes the key _getOldest() returns if (oldest), and the
\* key '' is falsy
CacheSet(key, value, ttl) ==
    LET evict == /\ Len(cache.entries) >= MaxSize
                 /\ ~CacheHas(cache.entries, key)
                 /\ Len(cache.entries) > 0
                 /\ GetOldest(cache.entries) # ""
        kept == IF evict
                THEN CacheDelete(cache.entries, GetOldest(cache.entries))
                ELSE cache.entries
        item == [key |-> key, value |-> value,
                 expires |-> now + (IF ttl = 0 THEN Ttl ELSE ttl)]
    IN /\ cache' = [cache EXCEPT
                       !.entries = CachePut(kept, key, item),
                       !.stats.sets = @ + 1,
                       !.stats.evictions = IF evict THEN @ + 1 ELSE @]
       /\ returned' = Returned("set", <<key, value>>, Undefined)
       /\ UNCHANGED <<database, files, now, builder, services>>

\* has(key), delete(key), clear()
CacheCall(method, key) ==
    /\ method \in {"has", "delete", "clear"}
    /\ cache' =
         IF method = "clear" THEN [cache EXCEPT !.entries = <<>>]
         ELSE IF ~CacheHas(cache.entries, key) THEN cache
         ELSE IF method = "delete"
         THEN [cache EXCEPT !.entries = CacheDelete(@, key),
                            !.stats.deletes = @ + 1]
         ELSE IF now > CacheItem(cache.entries, key).expires
         THEN [cache EXCEPT !.entries = CacheDelete(@, key)]
         ELSE cache
    /\ returned' =
         Returned(method, <<key>>,
                  IF method = "clear" THEN Undefined
                  ELSE [t |-> "bool", s |-> "",
                        n |-> IF /\ CacheHas(cache.entries, key)
                                 /\ IF method = "delete" THEN TRUE
                                    ELSE now <= CacheItem(cache.entries, key).expires
                              THEN 1 ELSE 0])
    /\ UNCHANGED <<database, files, now, builder, services>>

(***************************************************************************)
(* SQLParser.  A statement text is its leading token and the components    *)
(* the regular expressions of its parse function take from it:             *)
(*   table   : into / table / from / name, "" when the expression finds    *)
(*             none                                                        *)
(*   columns : the columns of SELECT and INSERT, the definitions of CREATE *)
(*   values  : the value lists of INSERT                                   *)
(*   set     : the keys of the SET list of UPDATE                          *)
(*   where   : a WHERE clause was found                                    *)
(*   object  : the word after CREATE, as written                           *)
(***************************************************************************)
Text(lead, table, columns, values, set, where, object) ==
    [lead |-> lead, table |-> table, columns |-> columns, values |-> values,
     set |-> set, where |-> where, object |-> object]

\* a column of a column list, or a column definition
Column(name, primaryKey) == [column |-> name, primaryKey |-> primaryKey]

\* this.keywords
Keywords ==
    [DML |-> <<"SELECT", "INSERT", "UPDATE", "DELETE", "REPLACE", "UPSERT">>,
     DDL |-> <<"CREATE", "ALTER", "DROP", "TRUNCATE", "RENAME">>,
     DCL |-> <<"GRANT", "REVOKE">>,
     TCL |-> <<"BEGIN", "START", "COMMIT", "ROLLBACK", "SAVEPOINT", "RELEASE">>,
     SPECIAL |-> <<"WITH", "EXPLAIN", "VACUUM", "ANALYZE", "PRAGMA">>]

\* detectType(sql) for a text with the leading token `lead`: "" is null
DetectType(lead) ==
    LET upper == UpperCase(lead)
        startsWith(type) ==
            Len(upper) >= Len(type) /\ SubSeq(upper, 1, Len(type)) = type
        tried == Keywords.DML \o Keywords.DDL \o Keywords.TCL
    IN IF \E i \in 1..Len(tried) : startsWith(tried[i])
       THEN tried[CHOOSE i \in 1..Len(tried) :
                     /\ startsWith(tried[i])
                     /\ \A j \in 1..(i - 1) : ~startsWith(tried[j])]
       ELSE ""

\* a list with the message when the finding applies
Finding(applies, message) == IF applies THEN <<message>> ELSE <<>>

\* variant: a statement with warnings is not valid
Valid_WarningsBlock(warnings, errors) == Len(errors) = 0 /\ Len(warnings) = 0

\* valid: errors.length === 0
Valid(warnings, errors) == Len(errors) = 0

\* validate(parsed) for a statement of `type` with the components c
Validate(type, c) ==
    LET table == UpperCase(c.object) = "TABLE"
        warnings ==
            CASE type = "SELECT" ->
                   Finding(\E i \in 1..Len(c.columns) : c.columns[i].column = "*",
                           "Using SELECT * is not recommended")
                   \o Finding(~c.where /\ c.table # "",
                              "Query without WHERE may be slow on large tables")
              [] type = "UPDATE" ->
                   Finding(~c.where, "UPDATE without WHERE will modify all rows")
              [] type = "DELETE" ->
                   Finding(~c.where, "DELETE without WHERE will delete all rows")
              [] type = "CREATE" /\ table ->
                   Finding(~\E i \in 1..Len(c.columns) : c.columns[i].primaryKey,
                           "Table has no primary key")
              [] OTHER -> <<>>
        errors ==
            CASE type = "SELECT" ->
                   Finding(c.where /\ c.table = "", "Invalid table reference")
              [] type = "INSERT" ->
                   Finding(c.table = "", "Missing table name")
                   \o Finding(/\ Len(c.columns) > 0
                              /\ Len(c.values) > 0
                              /\ Len(c.columns) # Len(c.values[1]),
                              "Column count mismatch")
              [] type = "UPDATE" ->
                   Finding(c.table = "", "Missing table name")
                   \o Finding(Len(c.set) = 0, "No columns to update")
              [] type = "DELETE" ->
                   Finding(c.table = "", "Missing table name")
              [] type = "CREATE" /\ table ->
                   Finding(c.table = "", "Missing table name")
                   \o Finding(Len(c.columns) = 0,
                              "Table must have at least one column")
              [] OTHER -> <<>>
    IN [valid |-> Valid(warnings, errors), warnings |-> warnings,
        errors |-> errors]

\* parse(sql) : the type, valid and the report; hasReport is FALSE for the
\* result { valid: false, error } of a text without a type
Parse(text) ==
    IF DetectType(text.lead) = ""
    THEN [type |-> "", valid |-> FALSE, error |-> "Unknown SQL statement type",
          hasReport |-> FALSE, warnings |-> <<>>, errors |-> <<>>]
    ELSE [type |-> DetectType(text.lead),
          valid |-> Validate(DetectType(text.lead), text).valid,
          error |-> "", hasReport |-> TRUE,
          warnings |-> Validate(DetectType(text.lead), text).warnings,
          errors |-> Validate(DetectType(text.lead), text).errors]

\* parse(sql) called on a parser
ParseCall(text) ==
    /\ returned' = Returned("parse", <<text>>, Parse(text))
    /\ UNCHANGED <<database, files, cache, now, builder, services>>

(***************************************************************************)
(* QueryBuilder (src/querybuilder.js).  builder.query is this._query with  *)
(* the fields the modelled methods and toSQL() use; an object ({} of set,  *)
(* the data of values) is the sequence of its entries, like a row.         *)
(***************************************************************************)
NewBuilder ==
    [query |-> [type |-> "", table |-> "", columns |-> <<"*">>,
                where |-> <<>>, whereParams |-> <<>>, having |-> <<>>,
                set |-> <<>>, setParams |-> <<>>, values |-> <<>>],
     chained |-> 0]

\* an entry of this._query.where
Condition(column, operator, value, conjunction, isIn, isBetween) ==
    [column |-> column, operator |-> operator, value |-> value,
     conjunction |-> conjunction, isIn |-> isIn, isBetween |-> isBetween]

\* a call of a builder method: column, operator and value for the where and
\* having family, `list` for the values of whereIn and the bounds of
\* whereBetween, `data` for the object of set and values, `name` for from
BuilderCallOf(method, name, column, operator, value, list, data) ==
    [method |-> method, name |-> name, column |-> column, operator |-> operator,
     value |-> value, list |-> list, data |-> data]

\* values.map(() => '?').join(', ')
RECURSIVE Placeholders(_)
Placeholders(n) ==
    IF n = 0 THEN "" ELSE IF n = 1 THEN "?" ELSE "?, " \o Placeholders(n - 1)

\* the builder methods: what a call leaves in this._query
Chain(q, call) ==
    LET push(w) == [q EXCEPT !.where = Append(@, w)]
    IN CASE call.method = "select" ->
              [q EXCEPT !.type = "SELECT", !.columns = <<"*">>]
         [] call.method = "from" -> [q EXCEPT !.table = call.name]
         [] call.method = "where" ->
              [push(Condition(call.column, call.operator, call.value, "AND",
                              FALSE, FALSE))
                  EXCEPT !.whereParams = Append(@, call.value)]
         [] call.method = "orWhere" ->
              [push(Condition(call.column, call.operator, call.value, "OR",
                              FALSE, FALSE))
                  EXCEPT !.whereParams = Append(@, call.value)]
         [] call.method = "whereIn" ->
              [push(Condition(call.column, "IN",
                              Str("(" \o Placeholders(Len(call.list)) \o ")"),
                              "AND", TRUE, FALSE))
                  EXCEPT !.whereParams = @ \o call.list]
         [] call.method = "whereNull" ->
              push(Condition(call.column, "IS", Str("NULL"), "AND", FALSE, FALSE))
         [] call.method = "whereNotNull" ->
              push(Condition(call.column, "IS NOT", Str("NULL"), "AND", FALSE, FALSE))
         [] call.method = "whereBetween" ->
              [push(Condition(call.column, "BETWEEN", Str("? AND ?"), "AND",
                              FALSE, TRUE))
                  EXCEPT !.whereParams = @ \o call.list]
         [] call.method = "having" ->
              [q EXCEPT !.having = Append(@, Condition(call.column, call.operator,
                                             call.value, "", FALSE, FALSE))]
         [] call.method = "set" ->
              LET RECURSIVE entries(_, _)
                  entries(query, i) ==
                      IF i > Len(call.data) THEN query
                      ELSE entries([query EXCEPT
                                      !.set = RowSet(@, call.data[i].k, call.data[i].v),
                                      !.setParams = Append(@, call.data[i].v)],
                                   i + 1)
              IN entries([q EXCEPT !.type = "UPDATE"], 1)
         [] call.method = "values" ->
              [q EXCEPT !.type = "INSERT", !.values = Append(@, call.data)]

\* toSQL(): { sql, params }, or the error it throws
ToSQL(q) ==
    LET RECURSIVE join(_, _)
        join(texts, sep) ==
            IF Len(texts) = 0 THEN ""
            ELSE IF Len(texts) = 1 THEN texts[1]
            ELSE texts[1] \o sep \o join(Tail(texts), sep)
        keys(object) == [i \in 1..Len(object) |-> object[i].k]
        vals(object) == [i \in 1..Len(object) |-> object[i].v]
        \* the WHERE clauses of _buildUpdate and _buildDelete
        plain == [i \in 1..Len(q.where) |->
                    (IF i > 1 THEN " " \o q.where[i].conjunction \o " " ELSE "")
                    \o q.where[i].column \o " " \o q.where[i].operator \o " ?"]
        \* the WHERE clauses of _buildSelect
        select == [i \in 1..Len(q.where) |->
                     IF q.where[i].isIn
                     THEN q.where[i].column \o " IN " \o q.where[i].value.s
                     ELSE IF q.where[i].isBetween
                     THEN q.where[i].column \o " BETWEEN " \o q.where[i].value.s
                     ELSE plain[i]]
        where(clauses) ==
            IF Len(q.where) > 0 THEN " WHERE " \o join(clauses, "") ELSE ""
        having ==
            IF Len(q.having) > 0
            THEN " HAVING " \o join([i \in 1..Len(q.having) |->
                                        q.having[i].column \o " "
                                        \o q.having[i].operator \o " ?"], " AND ")
            ELSE ""
        RECURSIVE rowValues(_)
        rowValues(i) ==
            IF i > Len(q.values) THEN <<>>
            ELSE vals(q.values[i]) \o rowValues(i + 1)
        built(sql, params) ==
            [threw |-> FALSE, error |-> "", sql |-> sql, params |-> params]
        thrown(message) ==
            [threw |-> TRUE, error |-> message, sql |-> "", params |-> <<>>]
    IN CASE q.type = "SELECT" ->
              IF q.table = "" THEN thrown("No table specified")
              ELSE built("SELECT " \o join(q.columns, ", ") \o " FROM " \o q.table
                         \o where(select) \o having,
                         (IF Len(q.where) > 0 THEN q.whereParams ELSE <<>>)
                         \o [i \in 1..Len(q.having) |-> q.having[i].value])
         [] q.type = "UPDATE" ->
              \* `UPDATE ${q.table}` : a table that is null is written as null
              built("UPDATE " \o (IF q.table = "" THEN "null" ELSE q.table)
                    \o " SET " \o join([i \in 1..Len(q.set) |->
                                          q.set[i].k \o " = ?"], ", ")
                    \o where(plain),
                    q.setParams \o (IF Len(q.where) > 0 THEN q.whereParams ELSE <<>>))
         [] q.type = "INSERT" ->
              IF q.table = "" THEN thrown("No table specified")
              ELSE IF Len(q.values) = 0 THEN built("INSERT INTO " \o q.table, <<>>)
              ELSE built("INSERT INTO " \o q.table
                         \o " (" \o join(keys(q.values[1]), ", ") \o ")"
                         \o " VALUES "
                         \o join([i \in 1..Len(q.values) |->
                                    "(" \o Placeholders(Len(q.values[1])) \o ")"],
                                 ", "),
                         rowValues(1))
         [] OTHER -> thrown("Unknown query type")

\* one more call chained on the builder
BuilderChain(call) ==
    /\ builder' = [query |-> Chain(builder.query, call),
                   chained |-> builder.chained + 1]
    /\ UNCHANGED <<database, files, cache, now, returned, services>>

\* toSQL() on the builder
BuilderToSQL ==
    /\ returned' = Returned("toSQL", <<builder.query>>, ToSQL(builder.query))
    /\ UNCHANGED <<database, files, cache, now, builder, services>>

(***************************************************************************)
(* The inputs the model draws from.                                        *)
(***************************************************************************)
\* an ordinary name, and a name that collides with the schema key of `t`
TableNames == {"t", SchemaKey("t")}

\* key.startsWith('_schema_'), for the keys the names above can produce
StartsWithSchema(key) ==
    \E n \in TableNames : key = SchemaKey(n) \/ key = SchemaKey(SchemaKey(n))

\* getTables()
GetTables == {k \in DOMAIN tables : ~StartsWithSchema(k)}

\* getSchema(tableName) : HasSchema is `!== null`
HasSchema(tableName) == SchemaKey(tableName) \in DOMAIN tables
GetSchema(tableName) == tables[SchemaKey(tableName)]

Callers == {NoUser, Caller("admin"), Caller("operator"), Caller("readonly"),
            Caller("viewer"), Caller("guest"), Caller("")}

Input(sql, params) == [sql |-> sql, params |-> params]

\* id INTEGER PRIMARY KEY AUTOINCREMENT, a TEXT
AutoDefs == <<ColDef("id", "INTEGER", TRUE, TRUE), ColDef("a", "TEXT", FALSE, FALSE)>>
\* id TEXT, a text, b real, c BLOB, d varchar, e
PlainDefs == <<ColDef("id", "TEXT", FALSE, FALSE), ColDef("a", "text", FALSE, FALSE),
               ColDef("b", "real", FALSE, FALSE), ColDef("c", "BLOB", FALSE, FALSE),
               ColDef("d", "varchar", FALSE, FALSE), ColDef("e", "", FALSE, FALSE)>>

\* one statement of each kind on table t, and the statements without a table
AccessInputs == {
    \* CREATE TABLE t (id INTEGER PRIMARY KEY AUTOINCREMENT, a TEXT)
    Input(CreateStmt("t", AutoDefs), <<>>),
    \* DROP TABLE t
    Input(DropStmt("t"), <<>>),
    \* INSERT INTO t (a) VALUES ('x')
    Input(InsertStmt("t", <<"a">>, <<Lit("x")>>), <<>>),
    \* UPDATE t SET a = 'y'
    Input(UpdateStmt("t", <<SetPair("a", TRUE, Lit("y"))>>, NoWhere), <<>>),
    \* DELETE FROM t
    Input(DeleteStmt("t", NoWhere), <<>>),
    \* SELECT * FROM t
    Input(SelectStmt("t", NoWhere), <<>>),
    \* GRANT SELECT ON db.t TO 'alice'
    Input(GrantStmt(TRUE, "alice"), <<>>),
    \* GRANT SELECT TO alice
    Input(GrantStmt(FALSE, ""), <<>>),
    \* REVOKE SELECT ON db.t FROM 'alice'
    Input(RevokeStmt, <<>>),
    \* VACUUM
    Input(OtherStmt, <<>>),
    \* INSERT INTO t VALUES ('x')
    Input(Malformed(InsertStmt("t", <<>>, <<Lit("x")>>)), <<>>),
    \* INSERT INTO t (a, b) VALUES ('x')
    Input(InsertStmt("t", <<"a", "b">>, <<Lit("x")>>), <<>>),
    \* SELECT * FROM _schema_t
    Input(SelectStmt(SchemaKey("t"), NoWhere), <<>>),
    \* execute(null)
    Input(NotText, <<>>)}

\* the statements on the store, for every table name n
StoreInputs ==
    UNION {{
        \* CREATE TABLE n (id INTEGER PRIMARY KEY AUTOINCREMENT, a TEXT)
        Input(CreateStmt(n, AutoDefs), <<>>),
        \* CREATE TABLE n (id TEXT, a text, b real, c BLOB, d varchar, e)
        Input(CreateStmt(n, PlainDefs), <<>>),
        \* DROP TABLE n
        Input(DropStmt(n), <<>>),
        \* INSERT INTO n (a) VALUES ('x')
        Input(InsertStmt(n, <<"a">>, <<Lit("x")>>), <<>>),
        \* INSERT INTO n (a, b) VALUES ('x', ?)  with ['p']
        Input(InsertStmt(n, <<"a", "b">>, <<Lit("x"), QMark>>), <<Str("p")>>),
        \* INSERT INTO n (a, b) VALUES (?, ?)  with ['p', 'q']
        Input(InsertStmt(n, <<"a", "b">>, <<QMark, QMark>>), <<Str("p"), Str("q")>>),
        \* INSERT INTO n (id, a) VALUES ('k', 'x')
        Input(InsertStmt(n, <<"id", "a">>, <<Lit("k"), Lit("x")>>), <<>>),
        \* INSERT INTO n (a, b) VALUES ('x')
        Input(InsertStmt(n, <<"a", "b">>, <<Lit("x")>>), <<>>),
        \* UPDATE n SET a = 'y'
        Input(UpdateStmt(n, <<SetPair("a", TRUE, Lit("y"))>>, NoWhere), <<>>),
        \* UPDATE n SET a = ? WHERE id == 1  with ['p']
        Input(UpdateStmt(n, <<SetPair("a", TRUE, QMark)>>,
                         Where("id", "==", Num(1))), <<Str("p")>>),
        \* DELETE FROM n
        Input(DeleteStmt(n, NoWhere), <<>>),
        \* DELETE FROM n WHERE id = 1
        Input(DeleteStmt(n, Where("id", "=", Num(1))), <<>>),
        \* DELETE FROM n WHERE id < 2
        Input(DeleteStmt(n, Where("id", "<", Num(2))), <<>>),
        \* SELECT * FROM n
        Input(SelectStmt(n, NoWhere), <<>>),
        \* SELECT * FROM n WHERE id > 1
        Input(SelectStmt(n, Where("id", ">", Num(1))), <<>>)
    } : n \in TableNames}

(***************************************************************************)
(* ConnectionPool (part_004), made with a creator that succeeds, min =     *)
(* PoolMin and max = PoolMax, with or without a validator.                 *)
(*   available, allocated, pending, initialized : the fields of the pool;  *)
(*       a connection is its number in the order of creation, allocated    *)
(*       is the set of the keys of this.allocated, and a pending entry is  *)
(*       the number of the acquire() call that pushed it                   *)
(*   requests  : the acquire() calls made so far, each with                *)
(*       stage    "initializing" (in await this.initialize()), "ready" (to  *)
(*                enter the while loop), "validating" (in await            *)
(*                this.validator(conn)), "pending" (its promise made),     *)
(*                "done" (resolved)                                        *)
(*       creators the creator() calls of its initialize() not yet resolved *)
(*       conn     the connection it validates or was resolved with         *)
(*       outcome  how its promise was settled, "" while it is not          *)
(*       released whether its caller has released conn                     *)
(*   creating  : creator() calls made by acquire() and not yet resolved    *)
(*   created   : _createConnection() promises fulfilled whose then         *)
(*               callback has not run yet                                  *)
(*   releasing : the connections whose validator, called by release(), has *)
(*               not resolved yet                                          *)
(*   count     : the connections created so far                            *)
(***************************************************************************)
PoolMin == 1
PoolMax == 2

NewPool(validator) ==
    [available |-> <<>>, allocated |-> {}, pending |-> <<>>,
     initialized |-> FALSE, validator |-> validator,
     requests |-> <<>>, creating |-> 0, created |-> 0, releasing |-> {},
     count |-> 0]

\* new ConnectionPool({ creator, validator, min, max })
Construct(validator) ==
    /\ pool' = NewPool(validator)
    /\ returned' = Returned("new ConnectionPool", <<validator>>, Undefined)
    /\ UNCHANGED <<database, files, cache, now, builder, server, client, others>>

\* this.available.pop() : the pool after it (the connection is the last one)
Pop(p) == [p EXCEPT !.available = SubSeq(@, 1, Len(@) - 1)]

\* _createConnection() after await this.creator()
Created(p) ==
    [p EXCEPT !.count = @ + 1, !.available = Append(@, p.count + 1)]

\* resolve(connection) of the promise of request r: no effect on a promise
\* that is settled
Resolve(p, r, connection) ==
    IF p.requests[r].outcome # "" THEN p
    ELSE [p EXCEPT !.requests[r] = [@ EXCEPT !.stage = "done",
                                             !.conn = connection,
                                             !.outcome = "resolved"]]

\* _processPending() : called without an error
ProcessPending(p) ==
    IF Len(p.pending) = 0 THEN p
    ELSE IF Len(p.available) > 0
    THEN LET connection == p.available[Len(p.available)]
         IN Resolve([Pop(p) EXCEPT !.pending = Tail(@),
                                   !.allocated = @ \cup {connection}],
                    Head(p.pending), connection)
    ELSE p

\* acquire() from its while loop on, for request r
AcquireLoop(p, r) ==
    IF Len(p.available) > 0
    THEN LET connection == p.available[Len(p.available)]
         IN IF p.validator
            THEN [Pop(p) EXCEPT !.requests[r] =
                                    [@ EXCEPT !.stage = "validating",
                                              !.conn = connection]]
            ELSE Resolve([Pop(p) EXCEPT !.allocated = @ \cup {connection}],
                         r, connection)
    ELSE IF Cardinality(p.allocated) + Len(p.pending) < PoolMax
    THEN [p EXCEPT !.pending = Append(@, r), !.creating = @ + 1,
                   !.requests[r] = [@ EXCEPT !.stage = "pending"]]
    ELSE [p EXCEPT !.pending = Append(@, r),
                   !.requests[r] = [@ EXCEPT !.stage = "pending"]]

PoolStep(method, args, p) ==
    /\ pool' = p
    /\ returned' = Returned(method, args, Undefined)
    /\ UNCHANGED <<database, files, cache, now, builder, server, client, others>>

\* acquire() up to its first await or its return
Acquire ==
    /\ Len(pool.requests) < MaxAcquires
    /\ LET r == Len(pool.requests) + 1
           called == [pool EXCEPT !.requests =
                         Append(@, [stage |-> "ready", creators |-> 0,
                                    conn |-> 0, outcome |-> "",
                                    released |-> FALSE])]
       IN PoolStep("acquire", <<r>>,
              IF ~pool.initialized
              THEN [called EXCEPT !.requests[r] =
                       [@ EXCEPT !.stage = "initializing",
                                 !.creators = PoolMin]]
              ELSE AcquireLoop(called, r))

\* a creator() call of the initialize() of request r resolves
InitializeCreated(r) ==
    /\ pool.requests[r].stage = "initializing"
    /\ pool.requests[r].creators > 0
    /\ PoolStep("_createConnection", <<r>>,
                [Created(pool) EXCEPT !.requests[r].creators = @ - 1])

\* initialize() of request r after await Promise.all(promises)
Initialized(r) ==
    /\ pool.requests[r].stage = "initializing"
    /\ pool.requests[r].creators = 0
    /\ PoolStep("initialize", <<r>>,
                [pool EXCEPT !.initialized = TRUE,
                             !.requests[r].stage = "ready"])

\* acquire() of request r goes on after await this.initialize(), or after
\* await this._destroyConnection(connection)
AcquireContinue(r) ==
    /\ pool.requests[r].stage = "ready"
    /\ PoolStep("acquire", <<r>>, AcquireLoop(pool, r))

\* acquire() of request r after await this.validator(connection)
AcquireValidated(r, valid) ==
    /\ pool.requests[r].stage = "validating"
    /\ PoolStep("validator", <<r, valid>>,
                IF valid
                THEN Resolve([pool EXCEPT !.allocated =
                                              @ \cup {pool.requests[r].conn}],
                             r, pool.requests[r].conn)
                ELSE [pool EXCEPT !.requests[r] =
                                      [@ EXCEPT !.stage = "ready",
                                                !.conn = 0]])

\* a creator() call made by acquire() resolves
BackgroundCreated ==
    /\ pool.creating > 0
    /\ PoolStep("_createConnection", <<0>>,
                [Created(pool) EXCEPT !.creating = @ - 1, !.created = @ + 1])

\* the callback  conn => { this._processPending(); }
BackgroundThen ==
    /\ pool.created > 0
    /\ PoolStep("_processPending", <<>>,
                [ProcessPending(pool) EXCEPT !.created = @ - 1])

\* the timer of request r fires: indexOf({ resolve, reject }) looks for an
\* object made for the search, which is no entry of this.pending
AcquireTimeout(r) ==
    /\ pool.requests[r].stage = "pending"
    /\ pool.requests[r].outcome = ""
    /\ r \in {pool.pending[i] : i \in 1..Len(pool.pending)}
    /\ PoolStep("timeout", <<r>>,
                [pool EXCEPT !.requests[r].outcome = "rejected"])

\* release(connection)
ReleaseConnection(p, connection) ==
    IF connection \notin p.allocated THEN p
    ELSE LET deleted == [p EXCEPT !.allocated = @ \ {connection}]
         IN ProcessPending(
                IF p.validator
                THEN [deleted EXCEPT !.releasing = @ \cup {connection}]
                ELSE [deleted EXCEPT !.available = Append(@, connection)])

\* the caller of request r releases its connection, once or twice in a row
Release(r, twice) ==
    /\ pool.requests[r].outcome = "resolved"
    /\ ~pool.requests[r].released
    /\ LET connection == pool.requests[r].conn
           called == [pool EXCEPT !.requests[r].released = TRUE]
           once == ReleaseConnection(called, connection)
       IN PoolStep("release", <<connection, twice>>,
                   IF twice THEN ReleaseConnection(once, connection)
                   ELSE once)

\* the callback  valid => { ... }  of release(connection)
ReleaseValidated(connection, valid) ==
    /\ connection \in pool.releasing
    /\ PoolStep("validator", <<connection, valid>>,
                IF valid
                THEN [pool EXCEPT !.releasing = @ \ {connection},
                                  !.available = Append(@, connection)]
                ELSE [pool EXCEPT !.releasing = @ \ {connection}])

\* a run of reap() in which the connections of `idle` have not been used for
\* idleTimeout
Reap(idle) ==
    /\ pool.initialized
    /\ idle # {}
    /\ idle \subseteq {pool.available[i] : i \in 1..Len(pool.available)}
    /\ Cardinality(pool.allocated) + Len(pool.available) > PoolMin
    /\ PoolStep("reap", <<idle>>,
                [pool EXCEPT !.available =
                     SelectSeq(@, LAMBDA c : c \notin idle)])

(***************************************************************************)
(* SQLite4Server (part_005), started with authRequired, any rateLimit and  *)
(* no allowlist.  The clock counts half windows: windowMs is WindowMs      *)
(* ticks.                                                                  *)
(*   rateLimits  : this.rateLimits, ip -> [count, reset]                   *)
(*   connections : this.connections, in the order of registration; a       *)
(*       connection id is the place in this order                          *)
(*   written     : the replies written to the sockets of the connections   *)
(*       that their peers have not read yet, each with its connection      *)
(*   databases   : the keys of this.databases.  The database MainDb is the *)
(*       SQLite4 object of this model; a database of another name is made  *)
(*       empty by getDatabase(), so that it has no user                    *)
(* A command has the fields type, database, username, password, sql,       *)
(* params and cmdId ("" where the line has none); a reply has success,     *)
(* error, user, role and cmdId, each "" or FALSE where the JSON text has   *)
(* no such property.                                                       *)
(***************************************************************************)
RateLimit == 2
WindowMs == 2
MainDb == "main"

NewServer ==
    [rateLimits |-> EmptyMap, connections |-> <<>>, databases |-> {},
     written |-> <<>>]

Command(type, name, username, password, sql, params) ==
    [type |-> type, database |-> name, username |-> username,
     password |-> password, sql |-> sql, params |-> params, cmdId |-> ""]

Reply(success, error, user, role) ==
    [success |-> success, error |-> error, user |-> user, role |-> role,
     cmdId |-> ""]

\* variant: the limit is compared with > , one connection too many passes
CheckRateLimit_OneMore(ip) ==
    IF ip \notin DOMAIN server.rateLimits
    THEN [ok |-> TRUE, rateLimits |->
             MapSet(server.rateLimits, ip, [count |-> 1, reset |-> now + WindowMs])]
    ELSE LET record == server.rateLimits[ip]
         IN IF now > record.reset
            THEN [ok |-> TRUE, rateLimits |->
                     MapSet(server.rateLimits, ip,
                            [count |-> 1, reset |-> now + WindowMs])]
            ELSE IF record.count > RateLimit
            THEN [ok |-> FALSE, rateLimits |-> server.rateLimits]
            ELSE [ok |-> TRUE, rateLimits |->
                     MapSet(server.rateLimits, ip,
                            [record EXCEPT !.count = @ + 1])]

\* checkRateLimit(ip) : what it returns and the map it leaves
CheckRateLimit(ip) ==
    IF ip \notin DOMAIN server.rateLimits
    THEN [ok |-> TRUE, rateLimits |->
             MapSet(server.rateLimits, ip, [count |-> 1, reset |-> now + WindowMs])]
    ELSE LET record == server.rateLimits[ip]
         IN IF now > record.reset
            THEN [ok |-> TRUE, rateLimits |->
                     MapSet(server.rateLimits, ip,
                            [count |-> 1, reset |-> now + WindowMs])]
            ELSE IF record.count >= RateLimit
            THEN [ok |-> FALSE, rateLimits |-> server.rateLimits]
            ELSE [ok |-> TRUE, rateLimits |->
                     MapSet(server.rateLimits, ip,
                            [record EXCEPT !.count = @ + 1])]

\* handleConnection(socket) of a socket whose remote address is ip: the
\* server after it, and what was written to the socket before it was
\* destroyed ("" when it was not)
Connected(ip) ==
    LET checked == CheckRateLimit(ip)
    IN IF ~checked.ok
       THEN [server |-> [server EXCEPT !.rateLimits = checked.rateLimits],
             error |-> "Rate limit exceeded"]
       ELSE [server |->
                [server EXCEPT
                    !.rateLimits = checked.rateLimits,
                    !.connections =
                        Append(@, [ip |-> ip, authenticated |-> FALSE,
                                   user |-> [isNull |-> TRUE, username |-> "",
                                             role |-> ""],
                                   database |-> "", connectedAt |-> now])],
             error |-> ""]

HandleConnection(ip) ==
    /\ server' = Connected(ip).server
    /\ returned' = Returned("handleConnection", <<ip>>, Str(Connected(ip).error))
    /\ UNCHANGED <<database, files, cache, now, builder, pool, client, others>>

\* db.authenticate(username, password) on the database `name`
AuthenticateOn(name, username, password) ==
    IF name # MainDb \/ username \notin DOMAIN users
    THEN [isNull |-> TRUE, username |-> "", role |-> ""]
    ELSE IF \/ ~users[username].hasPasswordHash
            \/ Sha256(password) # users[username].passwordHash
    THEN [isNull |-> TRUE, username |-> "", role |-> ""]
    ELSE [isNull |-> FALSE, username |-> users[username].username,
          role |-> users[username].role]

\* variant: the database is selected before the credentials are checked
HandleAuth_SelectsFirst(conn, cmd) ==
    LET user == AuthenticateOn(cmd.database, cmd.username, cmd.password)
    IN IF cmd.database = ""
       THEN [conn |-> conn, reply |-> Reply(FALSE, "Database name required", "", "")]
       ELSE IF cmd.username = "" \/ cmd.password = ""
       THEN [conn |-> conn, reply |-> Reply(FALSE, "Authentication required", "", "")]
       ELSE IF user.isNull
       THEN [conn |-> [conn EXCEPT !.database = cmd.database],
             reply |-> Reply(FALSE, "Invalid credentials", "", "")]
       ELSE [conn |-> [conn EXCEPT !.authenticated = TRUE, !.user = user,
                                   !.database = cmd.database],
             reply |-> Reply(TRUE, "", user.username, user.role)]

\* handleAuth(connId, cmd) with this.authRequired: the connection after it
\* and the result
HandleAuth(conn, cmd) ==
    LET user == AuthenticateOn(cmd.database, cmd.username, cmd.password)
    IN IF cmd.database = ""
       THEN [conn |-> conn, reply |-> Reply(FALSE, "Database name required", "", "")]
       ELSE IF cmd.username = "" \/ cmd.password = ""
       THEN [conn |-> conn, reply |-> Reply(FALSE, "Authentication required", "", "")]
       ELSE IF user.isNull
       THEN [conn |-> conn, reply |-> Reply(FALSE, "Invalid credentials", "", "")]
       ELSE [conn |-> [conn EXCEPT !.authenticated = TRUE, !.user = user,
                                   !.database = cmd.database],
             reply |-> Reply(TRUE, "", user.username, user.role)]

\* the server after a command on connection connId that left it as `conn`
\* and wrote `reply` to its socket, the sockets holding the replies `unread`
Answered(connId, conn, reply, unread, opened) ==
    [server EXCEPT
        !.databases = @ \cup opened,
        !.connections[connId] = conn,
        !.written = Append(unread, [connId |-> connId, reply |-> reply])]

\* handleCommand(connId, line) for the line JSON.stringify(cmd), the sockets
\* holding the replies `unread`: what it does to the server and to the
\* database
HandleCommand(connId, cmd, unread) ==
    LET conn == server.connections[connId]
    IN IF cmd.type \in {"query", "execute"} /\ conn.database # ""
       THEN \* handleQuery: db.execute(cmd.sql, cmd.params || [], conn.user)
            /\ ExecuteCall(cmd.sql, cmd.params,
                           IF conn.user.isNull THEN NoUser
                           ELSE Caller(conn.user.role))
            /\ server' = Answered(connId, conn,
                                  Reply(last'.result.success,
                                        last'.result.error, "", ""),
                                  unread, {})
       ELSE /\ UNCHANGED database
            /\ server' =
                 IF cmd.type = "auth"
                 THEN Answered(connId, HandleAuth(conn, cmd).conn,
                               HandleAuth(conn, cmd).reply, unread,
                               IF cmd.database = "" THEN {}
                               ELSE {cmd.database})
                 ELSE Answered(connId, conn,
                               IF cmd.type \in {"query", "execute"}
                               THEN Reply(FALSE, "No database selected", "", "")
                               ELSE IF cmd.type = "ping"
                               THEN Reply(TRUE, "", "", "")
                               ELSE Reply(FALSE, "Unknown command type", "", ""),
                               unread, {})

\* a line arrives on the socket of connection connId, the peers having read
\* every reply written before
Serve(connId, cmd) ==
    /\ connId \in 1..Len(server.connections)
    /\ HandleCommand(connId, cmd, <<>>)
    /\ returned' = Returned("handleCommand", <<connId, cmd>>, Undefined)
    /\ UNCHANGED <<files, cache, now, builder, pool, client, others>>

(***************************************************************************)
(* SQLite4Client (src/client.js), made without a database option, so that  *)
(* connect() sends nothing.                                                *)
(*   connected : this.connected                                            *)
(*   connId    : the connection of the server that is the other end of     *)
(*               this.socket, 0 before connect()                           *)
(*   pending   : this.pending; an entry is [cmdId, request], the request   *)
(*               being the number of the send() call that pushed it        *)
(*   requests  : the promises of the send() calls that wrote a line, each  *)
(*               "" while it is not settled, "resolved" or "rejected"      *)
(*   wire      : the lines written to the socket that the server has not   *)
(*               received yet                                              *)
(*   read      : the number of replies of the server handled so far        *)
(***************************************************************************)
ClientIp == "10.0.0.1"

NewClient ==
    [connected |-> FALSE, connId |-> 0, pending |-> <<>>, requests |-> <<>>,
     wire |-> <<>>, read |-> 0]

\* connect() up to the 'connect' event, the server accepting the socket
ClientConnect ==
    /\ client.connId = 0
    /\ server' = Connected(ClientIp).server
    /\ client' = IF Connected(ClientIp).error = ""
                 THEN [client EXCEPT !.connected = TRUE,
                                     !.connId = Len(server.connections) + 1]
                 ELSE client
    /\ returned' = Returned("connect", <<>>, Str(Connected(ClientIp).error))
    /\ UNCHANGED <<database, files, cache, now, builder, pool, others>>

\* send(cmd) : cmdId is Date.now().toString()
ClientSend(cmd) ==
    /\ IF ~client.connected
       THEN /\ returned' = Returned("send", <<cmd>>, Str("Not connected"))
            /\ UNCHANGED client
       ELSE /\ client' = [client EXCEPT
                   !.requests = Append(@, ""),
                   !.pending = Append(@, [cmdId |-> NumText(now),
                                          request |-> Len(client.requests) + 1]),
                   !.wire = Append(@, [cmd EXCEPT !.cmdId = NumText(now)])]
            /\ returned' = Returned("send", <<cmd>>, Str(""))
    /\ UNCHANGED <<database, files, cache, now, builder, pool, server, others>>

\* the 'data' event of the server's socket for the next line of the client
ServerReceive ==
    /\ client.wire # <<>>
    /\ HandleCommand(client.connId, Head(client.wire), server.written)
    /\ client' = [client EXCEPT !.wire = Tail(@)]
    /\ returned' = Returned("handleCommand",
                            <<client.connId, Head(client.wire)>>, Undefined)
    /\ UNCHANGED <<files, cache, now, builder, pool, others>>

\* the 'data' event of the client's socket for the next reply:
\* handleResponse(response)
HandleResponse ==
    /\ client.connId # 0
    /\ server.written # <<>>
    /\ Head(server.written).connId = client.connId
    /\ server' = [server EXCEPT !.written = Tail(@)]
    /\ LET response == Head(server.written).reply
           found == {i \in 1..Len(client.pending) :
                        /\ response.cmdId # ""
                        /\ client.pending[i].cmdId = response.cmdId}
           idx == CHOOSE i \in found : \A j \in found : i <= j
       IN /\ client' =
               IF found = {} THEN [client EXCEPT !.read = @ + 1]
               ELSE [client EXCEPT
                        !.read = @ + 1,
                        !.pending = SubSeq(@, 1, idx - 1)
                                      \o SubSeq(@, idx + 1, Len(@)),
                        !.requests[client.pending[idx].request] =
                            IF @ # "" THEN @
                            ELSE IF response.error # "" THEN "rejected"
                            ELSE "resolved"]
          /\ returned' = Returned("handleResponse", <<response>>, Undefined)
    /\ UNCHANGED <<database, files, cache, now, builder, pool, others>>

\* the timer of the send() call that made request r fires
RequestTimeout(r) ==
    /\ r \in 1..Len(client.requests)
    /\ \E i \in 1..Len(client.pending) : client.pending[i].request = r
    /\ LET cmdId == (CHOOSE e \in {client.pending[i] : i \in 1..Len(client.pending)} :
                        e.request = r).cmdId
           idx == CHOOSE i \in 1..Len(client.pending) :
                     /\ client.pending[i].cmdId = cmdId
                     /\ \A j \in 1..(i - 1) : client.pending[j].cmdId # cmdId
       IN client' = [client EXCEPT
                        !.pending = SubSeq(@, 1, idx - 1)
                                      \o SubSeq(@, idx + 1, Len(@)),
                        !.requests[r] = IF @ # "" THEN @ ELSE "rejected"]
    /\ returned' = Returned("timeout", <<r>>, Str("Request timeout"))
    /\ UNCHANGED <<database, files, cache, now, builder, pool, server, others>>

(***************************************************************************)
(* SQLite4Replication in slave mode: connect(), the socket's events, the   *)
(* reconnection timeout, startReplication() and its interval, stop().      *)
(* A socket is "connecting", "open", "closing" (ended or destroyed, its    *)
(* 'close' event is due) or "closed".                                      *)
(***************************************************************************)
NewSlave ==
    [connected |-> FALSE, replicating |-> FALSE,
     client |-> 0,                  \* this.client : 0 is null, else a socket
     sockets |-> <<>>,              \* every net.Socket that connect() made
     timers |-> {},                 \* the intervals that have not been cleared
     replicationInterval |-> 0,     \* this.replicationInterval : 0 is undefined
     started |-> 0,                 \* number of setInterval() calls so far
     reconnects |-> 0,              \* setTimeout(.., 5000) callbacks that are due
     sent |-> 0,                    \* get_changes requests written so far
     stopped |-> FALSE]             \* stop() has been called

\* connect() : this.client = new net.Socket(); this.client.connect(...)
Connect(sl) ==
    [sl EXCEPT !.sockets = Append(@, [state |-> "connecting", handshakes |-> 0]),
               !.client = Len(sl.sockets) + 1]

\* startReplication() : if (this.replicating) return; ... setInterval(...)
StartReplication(sl) ==
    IF sl.replicating THEN sl
    ELSE [sl EXCEPT !.replicating = TRUE,
                    !.started = @ + 1,
                    !.timers = @ \cup {sl.started + 1},
                    !.replicationInterval = sl.started + 1]

\* a step of the slave that leaves everything else alone
SlaveStep(method, args, sl, value) ==
    /\ slave' = sl
    /\ returned' = Returned(method, args, Str(value))
    /\ UNCHANGED <<database, files, cache, now, builder, pool, server, client,
                   migration>>

\* the application calls connect() once
SlaveConnect ==
    /\ slave.client = 0
    /\ ~slave.stopped
    /\ Len(slave.sockets) < MaxSockets
    /\ SlaveStep("connect", <<>>, Connect(slave), "")

\* the 'connect' callback of socket s: the handshake is written on this.client
SocketConnected(s) ==
    /\ slave.sockets[s].state = "connecting"
    /\ SlaveStep("connected", <<s>>,
                 [slave EXCEPT !.sockets[s].state = "open",
                               !.sockets[slave.client].handshakes = @ + 1,
                               !.connected = TRUE], "handshake")

\* the 'data' event of socket s with the master's answer to the handshake:
\* handleMasterResponse() calls startReplication()
MasterHandshake(s) ==
    /\ slave.sockets[s].state = "open"
    /\ slave.sockets[s].handshakes > 0
    /\ SlaveStep("handshake", <<s>>,
                 StartReplication([slave EXCEPT !.sockets[s].handshakes = @ - 1]),
                 "")

\* socket s fails to connect, or the master or the network ends it
SocketEnds(s) ==
    /\ slave.sockets[s].state \in {"connecting", "open"}
    /\ SlaveStep("end", <<s>>, [slave EXCEPT !.sockets[s].state = "closing"], "")

\* the 'close' event of socket s
SocketClose(s) ==
    /\ slave.sockets[s].state = "closing"
    /\ SlaveStep("close", <<s>>,
                 [slave EXCEPT !.sockets[s].state = "closed",
                               !.connected = FALSE,
                               !.replicating = FALSE,
                               !.reconnects = @ + 1], "")

\* the callback of setTimeout(.., 5000): if (!this.connected) this.connect()
ReconnectTimer ==
    /\ slave.reconnects > 0
    /\ Len(slave.sockets) < MaxSockets
    /\ LET due == [slave EXCEPT !.reconnects = @ - 1]
       IN IF slave.connected
          THEN SlaveStep("reconnect", <<>>, due, "")
          ELSE SlaveStep("reconnect", <<>>, Connect(due), "connect")

\* the callback `replicate` of interval t
Replicate(t) ==
    /\ t \in slave.timers
    /\ slave.sent < MaxPolls
    /\ IF ~slave.connected \/ ~slave.replicating
       THEN SlaveStep("replicate", <<t>>, slave, "")
       ELSE SlaveStep("replicate", <<t>>, [slave EXCEPT !.sent = @ + 1],
                      "get_changes")

\* stop()
SlaveStop ==
    /\ ~slave.stopped
    /\ LET cleared == [slave EXCEPT
                          !.replicating = FALSE,
                          !.stopped = TRUE,
                          !.timers = @ \ {slave.replicationInterval}]
       IN SlaveStep("stop", <<>>,
                    IF slave.client # 0
                       /\ slave.sockets[slave.client].state \in {"connecting", "open"}
                    THEN [cleared EXCEPT !.sockets[slave.client].state = "closing"]
                    ELSE cleared, "")

(***************************************************************************)
(* Migration (migration.js): the constructor, getPending() and migrate()   *)
(* in direction up.  _migrateUp() has no await: it runs to its end without *)
(* another callback in between; the model takes it one execute() call at   *)
(* a time and enables nothing else while it runs.                          *)
(***************************************************************************)
MigrationsTable == "_migrations"

\* a file of the directory: its name, whether /--\s*UP\s*\n.../ matches its
\* text, and the statements that upMatch[1].split(';') yields
MigrationFile(name, hasUp, statements) ==
    [name |-> name, hasUp |-> hasUp, statements |-> statements]

CreateT == CreateStmt("t", <<ColDef("a", "TEXT", FALSE, FALSE)>>)
InsertT == InsertStmt("t", <<"a">>, <<Lit("x")>>)
\* ALTER TABLE t ADD b TEXT : execute() supports no such command
AlterT == OtherStmt

FileNotes == MigrationFile("000_notes.sql", FALSE, <<>>)
FileCreate == MigrationFile("001_create.sql", TRUE, <<CreateT>>)
FileAlter == MigrationFile("002_alter.sql", TRUE, <<InsertT, AlterT>>)
FileInsert == MigrationFile("003_insert.sql", TRUE, <<InsertT>>)

\* fs.readdirSync(dir).filter(f => f.endsWith('.sql')).sort()
Directories ==
    {<<FileCreate, FileAlter, FileInsert>>, <<FileAlter, FileInsert>>,
     <<FileNotes, FileCreate>>, <<FileCreate, FileInsert>>,
     <<FileNotes, FileCreate, FileAlter, FileInsert>>, <<FileAlter>>,
     <<FileCreate, FileAlter>>, <<FileNotes, FileAlter, FileInsert>>}

NewMigration ==
    [constructed |-> FALSE,
     dir |-> <<>>,              \* the files of this.dir, sorted
     running |-> FALSE,         \* _migrateUp() is between two of its calls
     phase |-> "",              \* "file": at the head of the loop;
                                \* "statements": in the try block
     batch |-> 0,
     pending |-> <<>>,          \* the files the loop has not reached yet
     statements |-> <<>>,       \* the statements of the file not yet executed
     results |-> <<>>,
     failed |-> {},             \* files of this run of which a statement
                                \* came back with success: false
     runs |-> 0]

\* what migrate() hands to its caller: the results, or a rejection
Migrated(results) == [threw |-> FALSE, error |-> "", results |-> results]
Rejected(message) == [threw |-> TRUE, error |-> message, results |-> <<>>]

\* new Migration(db, { dir }) : _ensureTable()
MigrationConstruct(dir) ==
    /\ ~migration.constructed
    /\ ExecuteCall(CreateIfNotExistsStmt(MigrationsTable,
                      <<ColDef("id", "INTEGER", TRUE, TRUE),
                        ColDef("name", "TEXT", FALSE, FALSE),
                        ColDef("batch", "INTEGER", FALSE, FALSE),
                        ColDef("executed_at", "DATETIME", FALSE, FALSE)>>),
                   <<>>, NoUser)
    /\ migration' = [migration EXCEPT !.constructed = TRUE, !.dir = dir]
    /\ returned' = Returned("Migration", <<>>, Migrated(<<>>))
    /\ UNCHANGED <<files, cache, now, builder, pool, server, client, slave>>

\* the application creates the table with a statement that _createTable takes
CreateMigrationsTable ==
    /\ ~migration.running
    /\ MigrationsTable \notin DOMAIN tables
    /\ Execute(CreateStmt(MigrationsTable,
                          <<ColDef("name", "TEXT", FALSE, FALSE),
                            ColDef("batch", "INTEGER", FALSE, FALSE)>>),
               <<>>, NoUser)

\* SELECT name FROM _migrations
SelectNames ==
    [SelectStmt(MigrationsTable, NoWhere) EXCEPT !.columns = <<"name">>]

\* getPending(), given the result of its SELECT: files.filter(f =>
\* !executed.has(f)) with executed = new Set(result.rows.map(r => r.name))
RECURSIVE GetPending(_, _)
GetPending(dir, rows) ==
    IF dir = <<>> THEN <<>>
    ELSE IF \E i \in 1..Len(rows) : RowGet(rows[i], "name") = Str(Head(dir).name)
    THEN GetPending(Tail(dir), rows)
    ELSE <<Head(dir)>> \o GetPending(Tail(dir), rows)

\* migrate({ batch }) up to the loop of _migrateUp(): getPending(); when the
\* SELECT failed, result.rows is undefined and .map throws a TypeError
Migrate(batch) ==
    /\ migration.constructed
    /\ ~migration.running
    /\ migration.runs < MaxMigrates
    /\ ExecuteCall(SelectNames, <<>>, NoUser)
    /\ IF ~last'.result.success
       THEN /\ migration' = [migration EXCEPT !.runs = @ + 1, !.batch = batch,
                                              !.results = <<>>, !.failed = {}]
            /\ returned' = Returned("migrate", <<batch>>, Rejected(TypeError))
       ELSE /\ migration' = [migration EXCEPT
                   !.runs = @ + 1, !.batch = batch,
                   !.running = TRUE, !.phase = "file",
                   !.pending = GetPending(migration.dir, last'.result.rows),
                   !.statements = <<>>, !.results = <<>>, !.failed = {}]
            /\ returned' = Returned("getPending", <<batch>>, Migrated(<<>>))
    /\ UNCHANGED <<files, cache, now, builder, pool, server, client, slave>>

\* an entry of the results array
FileResult(file, success, error) ==
    [file |-> file, success |-> success, error |-> error]

\* for (const file of pending) : the next file, or the return after the last
MigrateFile ==
    /\ migration.running
    /\ migration.phase = "file"
    /\ IF migration.pending = <<>>
       THEN /\ migration' = [migration EXCEPT !.running = FALSE, !.phase = ""]
            /\ returned' = Returned("migrate", <<migration.batch>>,
                                    Migrated(migration.results))
       ELSE IF ~Head(migration.pending).hasUp
       THEN /\ migration' = [migration EXCEPT
                   !.pending = Tail(@),
                   !.results = Append(@, FileResult(Head(migration.pending).name,
                                         FALSE, "No UP migration found"))]
            /\ returned' = Returned("upMatch", <<migration.batch>>,
                                    Migrated(migration'.results))
       ELSE /\ migration' = [migration EXCEPT
                   !.phase = "statements",
                   !.statements = Head(migration.pending).statements]
            /\ returned' = Returned("upMatch", <<migration.batch>>,
                                    Migrated(migration.results))
    /\ UNCHANGED <<database, files, cache, now, builder, pool, server, client,
                   slave>>

\* this.db.execute(stmt) in the try block; the catch block is entered only
\* when execute() throws
MigrateStatement ==
    /\ migration.running
    /\ migration.phase = "statements"
    /\ migration.statements # <<>>
    /\ ExecuteCall(Head(migration.statements), <<>>, NoUser)
    /\ IF last'.escaped
       THEN /\ migration' = [migration EXCEPT
                   !.running = FALSE, !.phase = "",
                   !.results = Append(@, FileResult(Head(migration.pending).name,
                                                    FALSE, TypeError))]
            /\ returned' = Returned("migrate", <<migration.batch>>,
                                    Migrated(migration'.results))
       ELSE /\ migration' = [migration EXCEPT
                   !.statements = Tail(@),
                   !.failed = IF last'.result.success THEN @
                              ELSE @ \cup {Head(migration.pending).name}]
            /\ returned' = Returned("statement", <<migration.batch>>,
                                    Migrated(migration.results))
    /\ UNCHANGED <<files, cache, now, builder, pool, server, client, slave>>

\* INSERT INTO _migrations (name, batch) VALUES (?, ?) with [file, batch],
\* then results.push({ file, success: true })
MigrateRecord ==
    /\ migration.running
    /\ migration.phase = "statements"
    /\ migration.statements = <<>>
    /\ ExecuteCall(InsertStmt(MigrationsTable, <<"name", "batch">>,
                              <<QMark, QMark>>),
                   <<Str(Head(migration.pending).name), Num(migration.batch)>>,
                   NoUser)
    /\ IF last'.escaped
       THEN /\ migration' = [migration EXCEPT
                   !.running = FALSE, !.phase = "",
                   !.results = Append(@, FileResult(Head(migration.pending).name,
                                                    FALSE, TypeError))]
            /\ returned' = Returned("migrate", <<migration.batch>>,
                                    Migrated(migration'.results))
       ELSE /\ migration' = [migration EXCEPT
                   !.phase = "file",
                   !.pending = Tail(@),
                   !.results = Append(@, FileResult(Head(migration.pending).name,
                                                    TRUE, ""))]
            /\ returned' = Returned("record", <<migration.batch>>,
                                    Migrated(migration'.results))
    /\ UNCHANGED <<files, cache, now, builder, pool, server, client, slave>>

(***************************************************************************)
(* The state machine.                                                      *)
(***************************************************************************)
Init ==
    /\ tables = EmptyMap
    /\ users = EmptyMap
    /\ roles = InitRoles
    /\ queryLog = <<>>
    /\ calls = 0
    /\ last = Call(NoStmt, <<>>, NoUser, NoResult)
    /\ files = EmptyMap
    /\ cache = NewCache
    /\ now = 0
    /\ builder = NewBuilder
    /\ returned = Returned("", <<>>, Undefined)
    /\ pool = NewPool(FALSE)
    /\ server = NewServer
    /\ client = NewClient
    /\ slave = NewSlave
    /\ migration = NewMigration

\* one execute() call with a statement of `inputs` by a caller of `callers`
ExecuteFrom(inputs, callers) ==
    \E in \in inputs, user \in callers : Execute(in.sql, in.params, user)

(***************************************************************************)
(* Spec: execute() called by every kind of caller, with one statement of   *)
(* each kind on table t, and addUser().                                    *)
(***************************************************************************)
ExecuteKind(kind) ==
    /\ calls < MaxCalls
    /\ ExecuteFrom({in \in AccessInputs : in.sql.kind = kind}, Callers)

AddUserCall == AddUser("alice", "pw", "operator")

Next ==
    \/ ExecuteKind("SELECT")
    \/ ExecuteKind("INSERT")
    \/ ExecuteKind("UPDATE")
    \/ ExecuteKind("DELETE")
    \/ ExecuteKind("CREATE TABLE")
    \/ ExecuteKind("DROP TABLE")
    \/ ExecuteKind("GRANT")
    \/ ExecuteKind("REVOKE")
    \/ ExecuteKind("OTHER")
    \/ ExecuteKind("NOT TEXT")
    \/ AddUserCall

Spec == Init /\ [][Next]_vars

(***************************************************************************)
(* SpecStore: the store driven by the trusted local caller (user = null)   *)
(* with every statement form and table name, over longer runs.             *)
(***************************************************************************)
StoreCall(kind) ==
    /\ calls < MaxStoreCalls
    /\ ExecuteFrom({in \in StoreInputs : in.sql.kind = kind}, {NoUser})

NextStore ==
    \/ StoreCall("SELECT")
    \/ StoreCall("INSERT")
    \/ StoreCall("UPDATE")
    \/ StoreCall("DELETE")
    \/ StoreCall("CREATE TABLE")
    \/ StoreCall("DROP TABLE")

SpecStore == Init /\ [][NextStore]_vars

(***************************************************************************)
(* SpecLog: runs long enough to fill the query log, with calls that        *)
(* succeed, fail and are denied.                                           *)
(***************************************************************************)
LogCall(kind) ==
    /\ calls < MaxLogCalls
    /\ ExecuteFrom({in \in AccessInputs : in.sql.kind = kind},
                   {NoUser, Caller("readonly")})

NextLog ==
    \/ LogCall("CREATE TABLE")
    \/ LogCall("SELECT")
    \/ LogCall("OTHER")

SpecLog == Init /\ [][NextLog]_vars

(***************************************************************************)
(* SpecQuery: the statements of the specification's scenarios on one       *)
(* table t (name, age), by the trusted local caller.                       *)
(***************************************************************************)
\* id INTEGER PRIMARY KEY AUTOINCREMENT, name TEXT, age INTEGER
UsersDefs == <<ColDef("id", "INTEGER", TRUE, TRUE), ColDef("name", "TEXT", FALSE, FALSE),
               ColDef("age", "INTEGER", FALSE, FALSE)>>

QueryInputs == {
    \* CREATE TABLE t (id INTEGER PRIMARY KEY AUTOINCREMENT, name TEXT, age INTEGER)
    Input(CreateStmt("t", UsersDefs), <<>>),
    \* CREATE TABLE IF NOT EXISTS t (id INTEGER PRIMARY KEY AUTOINCREMENT, ...)
    Input(CreateIfNotExistsStmt("t", UsersDefs), <<>>),
    \* DROP TABLE t
    Input(DropStmt("t"), <<>>),
    \* DROP TABLE IF EXISTS t
    Input(DropIfExistsStmt("t"), <<>>),
    \* INSERT INTO t (name, age) VALUES ('Alice', 30)
    Input(InsertStmt("t", <<"name", "age">>, <<Lit("Alice"), Tok(FALSE, "30")>>), <<>>),
    \* INSERT INTO t (name, age) VALUES ('Bob', 25)
    Input(InsertStmt("t", <<"name", "age">>, <<Lit("Bob"), Tok(FALSE, "25")>>), <<>>),
    \* INSERT INTO t (name, age) VALUES ('age', 30)
    Input(InsertStmt("t", <<"name", "age">>, <<Lit("age"), Tok(FALSE, "30")>>), <<>>),
    \* INSERT INTO t (name) VALUES (?)  with ["' + this.tables.clear() + '"]
    Input(InsertStmt("t", <<"name">>, <<QMark>>), <<Str(Payload)>>),
    \* INSERT INTO t (name) VALUES (?)  with ["'); DROP TABLE x; --"]
    Input(InsertStmt("t", <<"name">>, <<QMark>>), <<Str(InjectedText)>>),
    \* SELECT * FROM t WHERE age > 26
    Input(SelectStmt("t", Where("age", ">", Num(26))), <<>>),
    \* SELECT * FROM t WHERE age > 24 AND name = 'Bob'
    Input(SelectStmt("t", WhereJoin(Where("age", ">", Num(24)), "AND",
                                    Where("name", "=", Str("Bob")))), <<>>),
    \* SELECT * FROM t WHERE name LIKE 'A%'
    Input(SelectStmt("t", WhereLike("name", "A%")), <<>>),
    \* SELECT * FROM t WHERE id IN (1,3)
    Input(SelectStmt("t", WhereIn("id", <<"1", "3">>)), <<>>),
    \* SELECT * FROM t WHERE id = ?  with [1]
    Input(SelectStmt("t", Where("id", "=", WherePlaceholder)), <<Num(1)>>),
    \* SELECT * FROM t WHERE name != 'Bob'
    Input(SelectStmt("t", Where("name", "!=", Str("Bob"))), <<>>),
    \* UPDATE t SET age = 31
    Input(UpdateStmt("t", <<SetPair("age", TRUE, Tok(FALSE, "31"))>>, NoWhere), <<>>),
    \* UPDATE t SET name = 'Al', age = 31 WHERE age > 26
    Input(UpdateStmt("t", <<SetPair("name", TRUE, Lit("Al")),
                            SetPair("age", TRUE, Tok(FALSE, "31"))>>,
                     Where("age", ">", Num(26))), <<>>),
    \* UPDATE t SET age = ? WHERE id = ?  with [31, 1]
    Input(UpdateStmt("t", <<SetPair("age", TRUE, QMark)>>,
                     Where("id", "=", WherePlaceholder)), <<Num(31), Num(1)>>),
    \* UPDATE t SET age = 31, name
    Input(UpdateStmt("t", <<SetPair("age", TRUE, Tok(FALSE, "31")),
                            SetPair("name", FALSE, Lit(""))>>, NoWhere), <<>>),
    \* DELETE FROM t
    Input(DeleteStmt("t", NoWhere), <<>>),
    \* DELETE FROM t WHERE name='Alice'
    Input(DeleteStmt("t", Where("name", "=", Str("Alice"))), <<>>),
    \* DELETE FROM t WHERE age > 26
    Input(DeleteStmt("t", Where("age", ">", Num(26))), <<>>),
    \* DELETE FROM t WHERE age > 26 AND id < 3
    Input(DeleteStmt("t", WhereJoin(Where("age", ">", Num(26)), "AND",
                                    Where("id", "<", Num(3)))), <<>>),
    \* DELETE FROM t WHERE id = ?  with [1]
    Input(DeleteStmt("t", Where("id", "=", WherePlaceholder)), <<Num(1)>>),
    \* SELECT * FROM t ORDER BY age
    Input(SelectOrderStmt("t", "age", ""), <<>>),
    \* SELECT * FROM t ORDER BY age DESC
    Input(SelectOrderStmt("t", "age", "DESC"), <<>>),
    \* SELECT * FROM t ORDER BY age LIMIT 1
    Input(WithLimit(SelectOrderStmt("t", "age", ""), 1), <<>>),
    \* SELECT * FROM t ORDER BY age DESC LIMIT 2
    Input(WithLimit(SelectOrderStmt("t", "age", "DESC"), 2), <<>>),
    \* UPDATE t SET name = ?, age = ?  with ["Al", 31]
    Input(UpdateStmt("t", <<SetPair("name", TRUE, QMark),
                            SetPair("age", TRUE, QMark)>>, NoWhere),
          <<Str("Al"), Num(31)>>)}

QueryCall(kind) ==
    /\ calls < MaxQueryCalls
    /\ ExecuteFrom({in \in QueryInputs : in.sql.kind = kind}, {NoUser})

NextQuery ==
    \/ QueryCall("SELECT")
    \/ QueryCall("INSERT")
    \/ QueryCall("UPDATE")
    \/ QueryCall("DELETE")
    \/ QueryCall("CREATE TABLE")
    \/ QueryCall("DROP TABLE")

SpecQuery == Init /\ [][NextQuery]_vars

(***************************************************************************)
(* SpecAuth: addUser(), GRANT by an administrator and authenticate() on    *)
(* two user names.                                                         *)
(***************************************************************************)
UserNames == {"alice", "bob"}
Passwords == {"pw", "pw2"}

AddUserAny ==
    \E username \in UserNames, password \in Passwords,
       role \in {"admin", "operator", "readonly"} :
        AddUser(username, password, role)

GrantCall ==
    /\ calls < MaxAuthCalls
    /\ ExecuteFrom({Input(GrantStmt(TRUE, name), <<>>) : name \in UserNames},
                   {Caller("admin")})

AuthenticateCall ==
    \E username \in UserNames \cup {"carol"}, password \in Passwords :
        Authenticate(username, password)

NextAuth ==
    \/ AddUserAny
    \/ GrantCall
    \/ AuthenticateCall

SpecAuth == Init /\ [][NextAuth]_vars

(***************************************************************************)
(* SpecCache: get() and set() on a cache of MaxSize entries while the      *)
(* clock advances.                                                         *)
(***************************************************************************)
CacheKeys == {"", "a", "b"}

\* the calls made so far that count in the statistics
CacheCalls ==
    cache.stats.hits + cache.stats.misses + cache.stats.sets + cache.stats.deletes

CacheGetCall ==
    /\ CacheCalls < MaxCacheCalls
    /\ \E key \in CacheKeys : CacheGet(key)

CacheSetCall ==
    /\ CacheCalls < MaxCacheCalls
    /\ \E key \in CacheKeys, ttl \in {0, 1} : CacheSet(key, Str("v"), ttl)

Tick ==
    /\ now < MaxNow
    /\ now' = now + 1
    /\ UNCHANGED <<database, files, cache, builder, returned, services>>

CacheOtherCall ==
    /\ CacheCalls < MaxCacheCalls
    /\ \E method \in {"has", "delete", "clear"}, key \in CacheKeys :
          CacheCall(method, key)

NextCache ==
    \/ CacheGetCall
    \/ CacheSetCall
    \/ CacheOtherCall
    \/ Tick

SpecCache == Init /\ [][NextCache]_vars

(***************************************************************************)
(* SpecBuilder: chains of builder calls, and toSQL() after any of them.    *)
(***************************************************************************)
BuilderCalls == {
    \* .select()  .from('t')
    BuilderCallOf("select", "", "", "", Undefined, <<>>, <<>>),
    BuilderCallOf("from", "t", "", "", Undefined, <<>>, <<>>),
    \* .where('a', 1)  .orWhere('b', 2)
    BuilderCallOf("where", "", "a", "=", Num(1), <<>>, <<>>),
    BuilderCallOf("orWhere", "", "b", "=", Num(2), <<>>, <<>>),
    \* .whereIn('c', [3, 4])  .whereBetween('e', 5, 6)
    BuilderCallOf("whereIn", "", "c", "", Undefined, <<Num(3), Num(4)>>, <<>>),
    BuilderCallOf("whereBetween", "", "e", "", Undefined, <<Num(5), Num(6)>>, <<>>),
    \* .whereNull('d')  .whereNotNull('d')
    BuilderCallOf("whereNull", "", "d", "", Undefined, <<>>, <<>>),
    BuilderCallOf("whereNotNull", "", "d", "", Undefined, <<>>, <<>>),
    \* .having('f', '>', 7)
    BuilderCallOf("having", "", "f", ">", Num(7), <<>>, <<>>),
    \* .set({ a: 1 })  .set({ a: 2, b: 3 })
    BuilderCallOf("set", "", "", "", Undefined, <<>>, <<[k |-> "a", v |-> Num(1)]>>),
    BuilderCallOf("set", "", "", "", Undefined, <<>>,
                  <<[k |-> "a", v |-> Num(2)], [k |-> "b", v |-> Num(3)]>>),
    \* .values({ a: 1 })  .values({ a: 2, b: 3 })
    BuilderCallOf("values", "", "", "", Undefined, <<>>, <<[k |-> "a", v |-> Num(1)]>>),
    BuilderCallOf("values", "", "", "", Undefined, <<>>,
                  <<[k |-> "a", v |-> Num(2)], [k |-> "b", v |-> Num(3)]>>)}

Chained(method) ==
    /\ builder.chained < MaxBuilderCalls
    /\ \E call \in {c \in BuilderCalls : c.method = method} : BuilderChain(call)

NextBuilder ==
    \/ Chained("select")
    \/ Chained("from")
    \/ Chained("where")
    \/ Chained("orWhere")
    \/ Chained("whereIn")
    \/ Chained("whereBetween")
    \/ Chained("whereNull")
    \/ Chained("whereNotNull")
    \/ Chained("having")
    \/ Chained("set")
    \/ Chained("values")
    \/ BuilderToSQL

SpecBuilder == Init /\ [][NextBuilder]_vars

(***************************************************************************)
(* SpecParse: parse() on statements of every keyword class, with and       *)
(* without a table name, columns, values, SET list and WHERE clause.       *)
(***************************************************************************)
\* column lists: none, *, a key column, two plain columns
ColumnLists == {<<>>, <<Column("*", FALSE)>>, <<Column("id", TRUE)>>,
                <<Column("a", FALSE), Column("b", FALSE)>>}

ParseInputs ==
    \* SELECT <columns> [FROM t] [WHERE ...], and SELECTED ...
    {Text(lead, table, columns, <<>>, <<>>, where, "") :
        lead \in {"SELECT", "select", "SELECTED"}, table \in {"", "t"},
        columns \in ColumnLists \ {<<Column("id", TRUE)>>}, where \in BOOLEAN}
    \cup
    \* INSERT [INTO t] [(columns)] [VALUES (...)]
    {Text("INSERT", table, columns, values, <<>>, FALSE, "") :
        table \in {"", "t"}, columns \in ColumnLists \ {<<Column("*", FALSE)>>},
        values \in {<<>>, << <<"1">> >>, << <<"1", "2">> >>}}
    \cup
    \* UPDATE [t] [SET a = 1] [WHERE ...]
    {Text("UPDATE", table, <<>>, <<>>, set, where, "") :
        table \in {"", "t"}, set \in {<<>>, <<"a">>}, where \in BOOLEAN}
    \cup
    \* DELETE [FROM t] [WHERE ...]
    {Text("DELETE", table, <<>>, <<>>, <<>>, where, "") :
        table \in {"", "t"}, where \in BOOLEAN}
    \cup
    \* CREATE TABLE | table | INDEX [t] [(definitions)]
    {Text("CREATE", table, columns, <<>>, <<>>, FALSE, object) :
        table \in {"", "t"}, columns \in ColumnLists \ {<<Column("*", FALSE)>>},
        object \in {"TABLE", "table", "INDEX"}}
    \cup
    \* statements of the other classes, and words that are no keyword
    {Text(lead, table, <<>>, <<>>, <<>>, FALSE, "") :
        lead \in {"DROP", "DROPS", "GRANT", "grant", "REVOKE", "BEGIN",
                  "COMMIT", "EXPLAIN", "FOO"}, table \in {"", "t"}}

NextParse == \E text \in ParseInputs : ParseCall(text)

SpecParse == Init /\ [][NextParse]_vars

(***************************************************************************)
(* SpecSnapshot: a database with a table, a row and a user is saved with   *)
(* and without a key, the file is tampered with, and a database is         *)
(* constructed from it.                                                    *)
(***************************************************************************)
SnapshotInputs == {
    Input(CreateStmt("t", AutoDefs), <<>>),
    Input(InsertStmt("t", <<"a">>, <<Lit("x")>>), <<>>)}

SnapshotCall ==
    /\ calls < MaxSnapshotCalls
    /\ ExecuteFrom(SnapshotInputs, {NoUser})

SaveCall == \E key \in Keys \cup {""}, iv \in Ivs : Save(key, iv)

OpenCall == \E key \in Keys \cup {""} : Open(key)

NextSnapshot ==
    \/ SnapshotCall
    \/ AddUserCall
    \/ SaveCall
    \/ OpenCall
    \/ Tamper

SpecSnapshot == Init /\ [][NextSnapshot]_vars

(***************************************************************************)
(* SpecBackup: a saved database file is backed up with every combination   *)
(* of the options and restored with every key.                             *)
(***************************************************************************)
BackupCall ==
    \E compress \in BOOLEAN, encrypt \in BOOLEAN, key \in Keys \cup {""},
       iv \in Ivs : Backup(compress, encrypt, key, iv)

RestoreCall == \E key \in Keys \cup {""} : Restore(key)

NextBackup ==
    \/ SaveCall
    \/ BackupCall
    \/ RestoreCall

SpecBackup == Init /\ [][NextBackup]_vars

(***************************************************************************)
(* SpecPool: acquire() calls, their callbacks in any order, releases (once *)
(* or twice in a row), timeouts and reaper runs, on a pool made with or    *)
(* without a validator.                                                    *)
(***************************************************************************)
Requests == 1..Len(pool.requests)
Connections == 1..pool.count

NextPool ==
    \/ \E validator \in BOOLEAN : pool = NewPool(FALSE) /\ Construct(validator)
    \/ Acquire
    \/ \E r \in Requests : InitializeCreated(r)
    \/ \E r \in Requests : Initialized(r)
    \/ \E r \in Requests : AcquireContinue(r)
    \/ \E r \in Requests, valid \in BOOLEAN : AcquireValidated(r, valid)
    \/ BackgroundCreated
    \/ BackgroundThen
    \/ \E r \in Requests : AcquireTimeout(r)
    \/ \E r \in Requests, twice \in BOOLEAN : Release(r, twice)
    \/ \E c \in Connections, valid \in BOOLEAN : ReleaseValidated(c, valid)
    \/ \E idle \in SUBSET Connections : Reap(idle)

SpecPool == Init /\ [][NextPool]_vars

(***************************************************************************)
(* SpecRate: sockets of two addresses connect while the clock advances.    *)
(***************************************************************************)
Ips == {ClientIp, "10.0.0.2"}

ConnectionCall ==
    /\ Len(server.connections) < MaxConnections
    /\ \E ip \in Ips : HandleConnection(ip)

NextRate ==
    \/ ConnectionCall
    \/ Tick

SpecRate == Init /\ [][NextRate]_vars

(***************************************************************************)
(* SpecServer: sockets connect, users are added to the database MainDb,    *)
(* and commands arrive on the registered connections.                      *)
(***************************************************************************)
ServerCommands == {
    Command("auth", MainDb, "alice", "pw", NoStmt, <<>>),
    Command("auth", MainDb, "bob", "pw2", NoStmt, <<>>),
    Command("auth", MainDb, "alice", "pw2", NoStmt, <<>>),
    Command("auth", MainDb, "", "pw", NoStmt, <<>>),
    Command("auth", "other", "alice", "pw", NoStmt, <<>>),
    Command("auth", "", "alice", "pw", NoStmt, <<>>),
    Command("query", "", "", "", CreateStmt("t", AutoDefs), <<>>),
    Command("execute", "", "", "", InsertStmt("t", <<"a">>, <<Lit("x")>>), <<>>),
    Command("ping", "", "", "", NoStmt, <<>>)}

ServerConnect ==
    /\ Len(server.connections) < MaxConnections
    /\ HandleConnection(ClientIp)

ServeCall ==
    /\ calls < MaxCommands
    /\ \E connId \in 1..Len(server.connections), cmd \in ServerCommands :
          Serve(connId, cmd)

ServerUserCall ==
    \/ AddUser("alice", "pw", "operator")
    \/ AddUser("bob", "pw2", "admin")

NextServer ==
    \/ ServerConnect
    \/ ServeCall
    \/ ServerUserCall

SpecServer == Init /\ [][NextServer]_vars

(***************************************************************************)
(* SpecClient: a client connects, sends commands, and the two ends of its  *)
(* socket are read in any order while the timers of its requests run.      *)
(***************************************************************************)
ClientCommands == {
    Command("auth", MainDb, "alice", "pw", NoStmt, <<>>),
    Command("query", "", "", "", CreateStmt("t", AutoDefs), <<>>),
    Command("ping", "", "", "", NoStmt, <<>>)}

ClientSendCall ==
    /\ Len(client.requests) < MaxRequests
    /\ \E cmd \in ClientCommands : ClientSend(cmd)

NextClient ==
    \/ ClientConnect
    \/ ClientSendCall
    \/ ServerReceive
    \/ HandleResponse
    \/ \E r \in 1..Len(client.requests) : RequestTimeout(r)
    \/ Tick

SpecClient == Init /\ [][NextClient]_vars

(***************************************************************************)
(* SpecSlave: a replication slave that connects once, its sockets' events, *)
(* its timers, and stop().                                                 *)
(***************************************************************************)
NextSlave ==
    \/ SlaveConnect
    \/ \E s \in 1..Len(slave.sockets) : SocketConnected(s)
    \/ \E s \in 1..Len(slave.sockets) : MasterHandshake(s)
    \/ \E s \in 1..Len(slave.sockets) : SocketEnds(s)
    \/ \E s \in 1..Len(slave.sockets) : SocketClose(s)
    \/ ReconnectTimer
    \/ \E t \in slave.timers : Replicate(t)
    \/ SlaveStop

SpecSlave == Init /\ [][NextSlave]_vars

(***************************************************************************)
(* SpecMigration: a Migration over one of eight directories, on a        *)
(* database in which the application may have created the migrations      *)
(* table.                                                                  *)
(***************************************************************************)
NextMigration ==
    \/ \E dir \in Directories : MigrationConstruct(dir)
    \/ CreateMigrationsTable
    \/ Migrate(migration.runs + 1)
    \/ MigrateFile
    \/ MigrateStatement
    \/ MigrateRecord

SpecMigration == Init /\ [][NextMigration]_vars

(***************************************************************************)
(* Properties.                                                             *)
(***************************************************************************)
\* the permission a statement kind is checked for
Verb(kind) ==
    CASE kind = "CREATE TABLE" -> "CREATE"
      [] kind = "DROP TABLE" -> "DROP"
      [] OTHER -> kind

Verbs == {"SELECT", "INSERT", "UPDATE", "DELETE", "CREATE", "DROP", "GRANT", "REVOKE"}

IsPermissionDenied(result) ==
    /\ ~result.success
    /\ \E verb \in Verbs : result.error = PermissionDenied(verb)

\* a step that is one execute() call
ExecuteStep == calls' = calls + 1

\* C1: a readonly or viewer caller gets "Permission denied: <VERB>" for every
\* INSERT, UPDATE, DELETE, CREATE TABLE and DROP TABLE, in every database
\* state, and never gets a permission error for a SELECT.
C1_ReadonlyAlwaysDenied ==
    (calls > 0 /\ last.user \in {Caller("readonly"), Caller("viewer")}) =>
        /\ last.sql.kind \in {"INSERT", "UPDATE", "DELETE", "CREATE TABLE", "DROP TABLE"}
              => last.result = Failure(PermissionDenied(Verb(last.sql.kind)))
        /\ last.sql.kind = "SELECT" => ~IsPermissionDenied(last.result)

\* C2: a call rejected with a permission-denied error leaves the relations,
\* schemas, users and roles exactly as they were before the call.
C2_DeniedCallChangesNothing ==
    [][(ExecuteStep /\ IsPermissionDenied(last'.result))
          => (tables' = tables /\ users' = users /\ roles' = roles)]_vars

C2_Witness ==
    /\ calls > 0
    /\ last.sql.kind = "DELETE"
    /\ last.user = Caller("readonly")
    /\ IsPermissionDenied(last.result)
    /\ "t" \in DOMAIN tables
    /\ Len(tables["t"].rows) > 0

ReachedGate(call) ==
    \/ call.sql.kind \in {"CREATE TABLE", "DROP TABLE"} /\ call.sql.matches
    \/ /\ call.sql.kind \in {"SELECT", "INSERT", "UPDATE", "DELETE"}
       /\ call.sql.matches
       /\ call.sql.tableName \in DOMAIN tables

\* C4: for a caller with a role other than admin a statement of verb V passes
\* the gate iff the role is a key of the roles map and V is in its permission
\* set (an unknown or missing role is denied every verb); admin passes always.
C4_GateFollowsRoles ==
    (calls > 0 /\ ~last.user.isNull /\ ReachedGate(last)) =>
        LET verb == Verb(last.sql.kind)
            role == last.user.role
            passes == last.result.error # PermissionDenied(verb)
        IN /\ role = "admin" => passes
           /\ role # "admin" =>
                (passes <=> (role \in DOMAIN roles /\ verb \in roles[role]))
           /\ role \notin DOMAIN roles => ~passes

C4_Witness ==
    /\ calls > 0
    /\ last.user = Caller("")
    /\ last.sql.kind = "SELECT"
    /\ "t" \in DOMAIN tables
    /\ last.result = Failure(PermissionDenied("SELECT"))

\* C5: GRANT and REVOKE succeed only for a caller whose role is admin; a
\* successful GRANT only registers its grantee with role readonly when the
\* grantee is not yet a user and leaves every registered user's record as it
\* is; REVOKE changes no table, user or role; the built-in roles keep their
\* seeded permission sets in every step.
C5_GrantRevokeFrame ==
    [][/\ roles' = InitRoles
       /\ (ExecuteStep /\ last'.sql.kind \in {"GRANT", "REVOKE"}) =>
            /\ last'.result.success => last'.user = Caller("admin")
            /\ tables' = tables
            /\ \A u \in DOMAIN users : u \in DOMAIN users' /\ users'[u] = users[u]
            /\ \A u \in DOMAIN users' \ DOMAIN users :
                  /\ last'.sql.kind = "GRANT"
                  /\ last'.result.success
                  /\ u = last'.sql.username
                  /\ users'[u].role = "readonly"
            /\ (last'.sql.kind = "GRANT" /\ last'.result.success)
                  => last'.sql.username \in DOMAIN users'
            /\ last'.sql.kind = "REVOKE" => users' = users]_vars

C5_Witness ==
    /\ calls > 0
    /\ last.sql.kind = "GRANT"
    /\ last.result.success
    /\ last.sql.username = "alice"
    /\ "alice" \in DOMAIN users
    /\ users["alice"].hasPasswordHash
    /\ users["alice"].role = "operator"

\* the relations of the store: the entries that are arrays of rows
Relations == {k \in DOMAIN tables : tables[k].isArray}

\* the last call was a successful INSERT; its row is the last of its relation
InsertSucceeded ==
    /\ calls > 0
    /\ last.sql.kind = "INSERT"
    /\ last.result.success

InsertedRow ==
    LET rows == tables[last.sql.tableName].rows IN rows[Len(rows)]

\* C6: ids issued for a table increase strictly and are never reused: the
\* rows of a relation, which stay in insertion order, carry strictly
\* increasing ids, also after deletes.
C6_IdsStrictlyIncrease ==
    \A k \in Relations :
        \A i, j \in 1..Len(tables[k].rows) :
            i < j => LessThan(RowGet(tables[k].rows[i], "id"),
                              RowGet(tables[k].rows[j], "id"))

\* the schema marks an auto-increment primary key
MarksAutoIncrement(schema) ==
    \E i \in 1..Len(schema) : schema[i].v.primary /\ schema[i].v.autoIncrement

\* the position (1-based) of a column in a column list
ColumnIndex(columns, col) == CHOOSE i \in 1..Len(columns) : columns[i] = col

\* the number of placeholders among the first n value texts
RECURSIVE PlaceholdersIn(_, _)
PlaceholdersIn(values, n) ==
    IF n = 0 THEN 0
    ELSE PlaceholdersIn(values, n - 1) + (IF IsPlaceholder(values[n]) THEN 1 ELSE 0)

\* positional binding: the k-th placeholder receives params[k - 1]
PositionalValue(values, params, i) ==
    IF IsPlaceholder(values[i])
    THEN ParamAt(params, PlaceholdersIn(values, i) - 1)
    ELSE StripQuotes(values[i])

\* C7: INSERT assigns id itself only for a table whose schema marks an
\* auto-increment primary key; otherwise an explicit id is stored as given
\* and no id is added when none is given; the row is appended and the result
\* reports changes = 1 and the new row's id.
C7_IdOnlyWhenAutoIncrement ==
    (InsertSucceeded /\ HasSchema(last.sql.tableName)
        /\ ~GetSchema(last.sql.tableName).isArray) =>
        LET sql == last.sql
            columns == sql.columns
        IN /\ last.result.changes = Num(1)
           /\ last.result.lastInsertRowid = RowGet(InsertedRow, "id")
           /\ ~MarksAutoIncrement(GetSchema(sql.tableName).schema) =>
                IF \E i \in 1..Len(columns) : columns[i] = "id"
                THEN RowGet(InsertedRow, "id") =
                        PositionalValue(sql.values, last.params,
                                        ColumnIndex(columns, "id"))
                ELSE ~RowHas(InsertedRow, "id")

\* C8: placeholders bind positionally: the k-th `?` of the value list
\* receives params[k-1], also when literals and placeholders are mixed, and
\* a literal is stored for the column at its position.
C8_PositionalBinding ==
    InsertSucceeded =>
        \A i \in 1..Len(last.sql.columns) :
            last.sql.columns[i] # "id" =>
                RowGet(InsertedRow, last.sql.columns[i]) =
                    PositionalValue(last.sql.values, last.params, i)

\* C9: every table that has a relation has exactly one schema and every
\* schema belongs to exactly one existing relation, for every table name;
\* getTables() lists the tables that exist, a table just created among them.
C9_ParallelKeysets ==
    /\ \A k \in Relations :
          k \in GetTables /\ HasSchema(k) /\ ~GetSchema(k).isArray
    /\ \A k \in DOMAIN tables \ Relations :
          \E n \in Relations : k = SchemaKey(n)
    /\ (calls > 0 /\ last.sql.kind = "CREATE TABLE" /\ last.result.success)
          => last.sql.tableName \in GetTables

Min(a, b) == IF a < b THEN a ELSE b

\* C10: after n execute calls the query log holds the records of the most
\* recent min(n, 1000) calls, in execution order.
C10_LogHoldsMostRecent ==
    /\ Len(queryLog) = Min(calls, QueryLogCapacity)
    /\ \A i \in 1..Len(queryLog) :
          queryLog[i] = LogRecord(calls - Len(queryLog) + i)

C10_Witness ==
    /\ calls = QueryLogCapacity + 2
    /\ Len(queryLog) = QueryLogCapacity
    /\ queryLog[1] = LogRecord(3)
    /\ IsPermissionDenied(last.result)

(***************************************************************************)
(* Properties of the statement handlers.                                   *)
(***************************************************************************)
\* the statement addresses a relation of the store as it is before the step
OnRelation(sql) ==
    /\ sql.matches
    /\ sql.tableName \in DOMAIN tables
    /\ tables[sql.tableName].isArray

\* the errors the handlers raise for a statement, in the state before the call
Fails(sql, user) ==
    \/ ~sql.matches
    \/ /\ sql.kind \in {"SELECT", "INSERT", "UPDATE", "DELETE", "DROP TABLE"}
       /\ sql.tableName \notin DOMAIN tables
    \/ sql.kind = "CREATE TABLE" /\ sql.tableName \in DOMAIN tables
    \/ sql.kind = "INSERT" /\ Len(sql.values) < Len(sql.columns)
    \/ /\ sql.kind \in {"SELECT", "INSERT", "UPDATE"}
       /\ sql.tableName \in DOMAIN tables
       /\ ~tables[sql.tableName].isArray
    \/ /\ ~user.isNull
       /\ user.role # "admin"
       /\ (user.role \in DOMAIN roles => Verb(sql.kind) \notin roles[user.role])
    \/ sql.kind \in {"GRANT", "REVOKE"} /\ user.isNull

C12_FailedCallChangesNothing ==
    [][(/\ ExecuteStep
        /\ last'.sql.kind \in {"INSERT", "UPDATE", "DELETE", "CREATE TABLE",
                               "DROP TABLE"}
        /\ ~last'.result.success) => tables' = tables]_vars

\* the type the schema is to record for a declared type
DeclaredType(declared) ==
    CASE declared \in {"INTEGER", "integer"} -> "INTEGER"
      [] declared \in {"REAL", "real"} -> "REAL"
      [] declared \in {"TEXT", "text"} -> "TEXT"
      [] declared \in {"BLOB", "blob"} -> "BLOB"
      [] OTHER -> "TEXT"

C14_CreateIfNotExistsIdempotent ==
    [][(ExecuteStep /\ last'.sql.kind = "CREATE TABLE" /\ last'.sql.ifClause) =>
          /\ last'.result.success
          /\ last'.sql.tableName \in {k \in DOMAIN tables' : tables'[k].isArray}
          /\ last'.sql.tableName \in DOMAIN tables => tables' = tables]_vars

\* C15: DROP TABLE removes the relation and its schema when the table exists;
\* when it does not exist DROP TABLE fails with "does not exist", and DROP
\* TABLE IF EXISTS succeeds and leaves the store unchanged.
C15_DropTable ==
    [][(ExecuteStep /\ last'.sql.kind = "DROP TABLE" /\ last'.sql.matches) =>
          LET name == last'.sql.tableName
          IN IF name \in DOMAIN tables
             THEN /\ last'.result.success
                  /\ name \notin DOMAIN tables'
                  /\ SchemaKey(name) \notin DOMAIN tables'
             ELSE IF last'.sql.ifClause
             THEN last'.result.success /\ tables' = tables
             ELSE /\ last'.result = Failure(TableNotFound(name))
                  /\ tables' = tables]_vars

(***************************************************************************)
(* The meaning of a predicate in the specification's grammar: operands     *)
(* compare as numbers when both parse as numbers and as strings otherwise, *)
(* a stored value is a literal, and the k-th ? is the k-th parameter.      *)
(***************************************************************************)
ParsesAsNumber(v) ==
    /\ ToNumber(v).t = "num"
    /\ ~(v.t = "str" /\ v.s = "")

SqlEq(a, b) ==
    IF ParsesAsNumber(a) /\ ParsesAsNumber(b)
    THEN ToNumber(a).n = ToNumber(b).n
    ELSE ToText(a) = ToText(b)

SqlLess(a, b) ==
    IF ParsesAsNumber(a) /\ ParsesAsNumber(b)
    THEN ToNumber(a).n < ToNumber(b).n
    ELSE StrRank(ToText(a)) < StrRank(ToText(b))

\* LIKE 'A%' : the text starts with the letter a, in either case
SqlLike(pattern, text) ==
    /\ pattern = "A%"
    /\ text \in {"A%", "Al", "Alice", "age"}

\* one atom on a row, with b the literal or the parameter bound to its ?
AtomHolds(row, atom, b) ==
    LET a == RowGet(row, atom.col)
    IN /\ RowHas(row, atom.col)
       /\ a.t # "undefined"
       /\ CASE atom.op \in {"=", "=="} -> SqlEq(a, b)
            [] atom.op \in {"!=", "<>"} -> ~SqlEq(a, b)
            [] atom.op = "<" -> SqlLess(a, b)
            [] atom.op = ">" -> SqlLess(b, a)
            [] atom.op = "<=" -> SqlLess(a, b) \/ SqlEq(a, b)
            [] atom.op = ">=" -> SqlLess(b, a) \/ SqlEq(a, b)
            [] atom.op = "LIKE" -> SqlLike(atom.rhs.s, ToText(a))
            [] atom.op = "IN" ->
                  \E i \in 1..Len(atom.list) : atom.list[i] = ToText(a)

\* the right-hand side of an atom, its ? bound to the parameter at index k
Bound(atom, params, k) ==
    IF atom.rhs = WherePlaceholder THEN ParamAt(params, k) ELSE atom.rhs

\* the predicate on a row; k is the index of the parameter of its first ?
Holds(row, where, params, k) ==
    IF where.conn = "" THEN AtomHolds(row, where, Bound(where, params, k))
    ELSE LET second == where.more[1]
             k2 == IF where.rhs = WherePlaceholder THEN k + 1 ELSE k
             l == AtomHolds(row, where, Bound(where, params, k))
             r == AtomHolds(row, second, Bound(second, params, k2))
         IN IF where.conn = "AND" THEN l /\ r ELSE l \/ r

\* the rows that satisfy the clause; every row when there is none
Satisfying(rows, where, params, k) ==
    {i \in 1..Len(rows) : ~where.present \/ Holds(rows[i], where, params, k)}

HasPlaceholder(where) ==
    /\ where.present
    /\ \/ where.rhs = WherePlaceholder
       \/ where.conn # "" /\ where.more[1].rhs = WherePlaceholder

\* the stored strings hold no quote and no column name of their row
PlainRows(rows) ==
    \A i \in 1..Len(rows) : \A j \in 1..Len(rows[i]) :
        rows[i][j].v.t = "str" =>
            /\ Quoting(rows[i][j].v.s) = "literal"
            /\ ~RowHas(rows[i], rows[i][j].v.s)

\* C16: DELETE FROM t WHERE p removes exactly the rows that satisfy p, keeps
\* the other rows in their order and returns changes = the number of rows
\* removed; without WHERE it removes every row and returns the row count.
C16_DeleteRemovesMatching ==
    [][(/\ ExecuteStep
        /\ last'.sql.kind = "DELETE"
        /\ OnRelation(last'.sql)
        /\ ~HasPlaceholder(last'.sql.where)
        /\ PlainRows(tables[last'.sql.tableName].rows)) =>
          LET name == last'.sql.tableName
              rows == tables[name].rows
              gone == Satisfying(rows, last'.sql.where, last'.params, 0)
          IN /\ last'.result.success
             /\ name \in DOMAIN tables'
             /\ tables'[name].rows = FilterRows(rows, (1..Len(rows)) \ gone, 1)
             /\ last'.result.changes = Num(Cardinality(gone))]_vars

\* C17: a successful UPDATE returns changes = the number of rows that
\* matched, whatever the number of assignments; it matches every row when
\* there is no WHERE, leaves the other rows unchanged and keeps the number
\* and order of the rows.
C17_UpdateCountsRows ==
    [][(/\ ExecuteStep
        /\ last'.sql.kind = "UPDATE"
        /\ OnRelation(last'.sql)
        /\ last'.result.success
        /\ ~HasPlaceholder(last'.sql.where)
        /\ PlainRows(tables[last'.sql.tableName].rows)) =>
          LET name == last'.sql.tableName
              rows == tables[name].rows
              hit == Satisfying(rows, last'.sql.where, last'.params, 0)
          IN /\ last'.result.changes = Num(Cardinality(hit))
             /\ name \in DOMAIN tables'
             /\ Len(tables'[name].rows) = Len(rows)
             /\ \A i \in (1..Len(rows)) \ hit : tables'[name].rows[i] = rows[i]
             /\ \A i \in 1..Len(rows) :
                   RowGet(tables'[name].rows[i], "id") = RowGet(rows[i], "id")]_vars

\* C18: SELECT ... FROM t WHERE p returns exactly the rows of t that satisfy
\* p, in their order, with rowCount their number, for comparisons, AND / OR,
\* LIKE with % and IN lists.
C18_SelectReturnsMatching ==
    [][(/\ ExecuteStep
        /\ last'.sql.kind = "SELECT"
        /\ OnRelation(last'.sql)
        /\ last'.sql.where.present
        /\ ~HasPlaceholder(last'.sql.where)
        /\ PlainRows(tables[last'.sql.tableName].rows)) =>
          LET rows == tables[last'.sql.tableName].rows
              hit == Satisfying(rows, last'.sql.where, last'.params, 0)
          IN /\ last'.result.success
             /\ last'.result.rows = FilterRows(rows, hit, 1)
             /\ last'.result.rowCount = Num(Cardinality(hit))]_vars

\* the assignments of the SET list, as value texts
SetValues(setPairs) == [j \in 1..Len(setPairs) |-> setPairs[j].val]

\* C19: the placeholders of a WHERE clause bind to the parameters in
\* left-to-right order: WHERE id = ? with [v] selects, updates or deletes
\* exactly the rows whose id is v, and in UPDATE ... SET c = ? WHERE id = ?
\* the SET placeholder takes params[0] and the WHERE placeholder params[1].
C19_WherePlaceholdersBind ==
    [][(/\ ExecuteStep
        /\ last'.sql.kind \in {"SELECT", "UPDATE", "DELETE"}
        /\ OnRelation(last'.sql)
        /\ HasPlaceholder(last'.sql.where)
        /\ PlainRows(tables[last'.sql.tableName].rows)) =>
          LET sql == last'.sql
              rows == tables[sql.tableName].rows
              values == SetValues(sql.setPairs)
              hit == Satisfying(rows, sql.where, last'.params,
                                PlaceholdersIn(values, Len(values)))
              after == tables'[sql.tableName].rows
          IN /\ last'.result.success
             /\ sql.kind = "SELECT" => last'.result.rows = FilterRows(rows, hit, 1)
             /\ sql.kind = "DELETE" =>
                   after = FilterRows(rows, (1..Len(rows)) \ hit, 1)
             /\ sql.kind = "UPDATE" =>
                   /\ Len(after) = Len(rows)
                   /\ \A i \in (1..Len(rows)) \ hit : after[i] = rows[i]
                   /\ \A i \in hit : \A j \in 1..Len(values) :
                         RowGet(after[i], sql.setPairs[j].col) =
                            PositionalValue(values, last'.params, j)]_vars

\* C20: evaluating a WHERE clause runs no stored value and no predicate text
\* as code: whatever strings the rows hold, a SELECT returns the rows that
\* satisfy the predicate with the stored values read as literal strings, and
\* leaves every relation, schema, user and role unchanged.
C20_SelectRunsNoCode ==
    [][(/\ ExecuteStep
        /\ last'.sql.kind = "SELECT"
        /\ OnRelation(last'.sql)
        /\ ~HasPlaceholder(last'.sql.where)) =>
          LET rows == tables[last'.sql.tableName].rows
              hit == Satisfying(rows, last'.sql.where, last'.params, 0)
          IN /\ tables' = tables
             /\ users' = users
             /\ roles' = roles
             /\ \A i \in 1..Len(rows) :
                   ~PlainRows(<<rows[i]>>) =>
                       ((\E j \in 1..Len(last'.result.rows) :
                            last'.result.rows[j] = rows[i]) <=> i \in hit)]_vars

(***************************************************************************)
(* Properties of ORDER BY / LIMIT, authenticate() and the cache.           *)
(***************************************************************************)
\* the rows in the order a stable sort by `col` leaves them: a row comes
\* before another when its key orders first (last, for DESC) or, on equal
\* keys, when it comes first in `rows`
StableSorted(rows, col, dir) ==
    LET key(i) == RowGet(rows[i], col)
        first(j, i) == IF dir = "DESC" THEN SqlLess(key(i), key(j))
                       ELSE SqlLess(key(j), key(i))
        before(j, i) ==
            \/ first(j, i)
            \/ ~first(i, j) /\ j < i
        rank(i) == 1 + Cardinality({j \in 1..Len(rows) : before(j, i)})
    IN [r \in 1..Len(rows) |-> rows[CHOOSE i \in 1..Len(rows) : rank(i) = r]]

\* C21: SELECT ... ORDER BY c [ASC|DESC] [LIMIT n] returns the rows sorted by
\* c, ascending by default and descending for DESC, rows that tie on c in
\* their insertion order in both directions, cut to the first n rows with
\* rowCount = min(n, number of rows); the stored relation is not changed.
C21_OrderByStableThenLimit ==
    [][(/\ ExecuteStep
        /\ last'.sql.kind = "SELECT"
        /\ last'.sql.orderBy # ""
        /\ OnRelation(last'.sql)
        /\ ~last'.sql.where.present
        /\ \A i \in 1..Len(tables[last'.sql.tableName].rows) :
               RowHas(tables[last'.sql.tableName].rows[i], last'.sql.orderBy)) =>
          LET rows == tables[last'.sql.tableName].rows
              sorted == StableSorted(rows, last'.sql.orderBy, last'.sql.dir)
              n == IF last'.sql.hasLimit /\ last'.sql.limit < Len(rows)
                   THEN last'.sql.limit ELSE Len(rows)
          IN /\ last'.result.success
             /\ last'.result.rows = SubSeq(sorted, 1, n)
             /\ last'.result.rowCount = Num(n)
             /\ tables' = tables]_vars

AuthenticateStep == calls' = calls /\ returned'.method = "authenticate"
AddUserStep == calls' = calls /\ returned'.method = "addUser"

\* C24: authenticate(username, password) returns {username, role} exactly
\* when username is registered with the hash of password, role being the
\* role of the most recent addUser for that name (addUser replaces the
\* record, no other call changes a registered record); it returns null for
\* an unknown user, a wrong password and a user registered by GRANT only,
\* and changes neither users nor roles.
C24_Authenticate ==
    [][/\ AuthenticateStep =>
            LET username == returned'.args[1]
                password == returned'.args[2]
                registered ==
                    /\ username \in DOMAIN users
                    /\ users[username].hasPasswordHash
                    /\ users[username].passwordHash = Sha256(password)
            IN /\ returned'.value =
                    IF registered
                    THEN [username |-> username, role |-> users[username].role]
                    ELSE Null
               /\ users' = users
               /\ roles' = roles
       /\ AddUserStep =>
            /\ users'[returned'.args[1]] =
                  UserRecord(returned'.args[1], returned'.args[3], TRUE,
                             Sha256(returned'.args[2]))
            /\ \A u \in DOMAIN users \ {returned'.args[1]} :
                  u \in DOMAIN users' /\ users'[u] = users[u]
       /\ ~AddUserStep =>
            \A u \in DOMAIN users : u \in DOMAIN users' /\ users'[u] = users[u]]_vars

\* authenticate() has let a user in after a GRANT, and refused a user that
\* GRANT alone registered
C24_Witness ==
    /\ returned.method = "authenticate"
    /\ \/ /\ returned.value # Null
          /\ returned.value.role = "admin"
          /\ calls > 0
       \/ /\ returned.value = Null
          /\ returned.args[1] \in DOMAIN users
          /\ ~users[returned.args[1]].hasPasswordHash

OpenStep == returned'.method = "new SQLite4" /\ DbPath \in DOMAIN files

\* the file holds a snapshot saved under the key the database is opened with
SavedUnder(file, key) ==
    \/ key = "" /\ file.form = "json"
    \/ key # "" /\ file.form = "aead" /\ file.key = key /\ file.body.form = "json"

\* C22: a database constructed from the file that _save() wrote, with the
\* same key (or none), has the relations, roles and users that were saved.
C22_SnapshotRoundTrip ==
    [][(OpenStep /\ SavedUnder(files[DbPath], returned'.args[2])) =>
         LET snapshot == IF returned'.args[2] = "" THEN files[DbPath]
                         ELSE files[DbPath].body
         IN /\ tables' = snapshot.tables.entries
            /\ roles' = snapshot.roles.entries
            /\ users' = snapshot.users.entries]_vars

\* C23: the constructor fails when the file does not verify under the key
\* (wrong key, tampered data) or its content cannot be parsed: it never
\* returns a usable database after such a failure.
C23_LoadFailureAborts ==
    [][(OpenStep /\ ~SavedUnder(files[DbPath], returned'.args[2])) =>
         returned'.value.threw]_vars

BackupStep == returned'.method = "backup" /\ ~returned'.value.threw
RestoreStep == returned'.method = "restore" /\ BackupPath \in DOMAIN files

\* C27: the header of a backup states the transformations applied to the
\* payload, gzip first and encryption second; restore with the key of the
\* backup writes the source bytes, and restore of an encrypted backup with
\* a wrong key or without one fails and writes no file.
C27_BackupRoundTrip ==
    [][/\ BackupStep =>
            LET header == files'[BackupPath].header
                data == files'[BackupPath].data
                inner == IF data.form = "sealed" THEN data.body ELSE data
            IN /\ header.compressed = returned'.args[1]
               /\ header.encrypted <=> data.form = "sealed"
               /\ header.encrypted => data.key = returned'.args[3]
               /\ header.compressed <=> inner.form = "gzip"
               /\ (IF inner.form = "gzip" THEN inner.body ELSE inner) = files[DbPath]
       /\ RestoreStep =>
            LET data == files[BackupPath].data
                inner == IF data.form = "sealed" THEN data.body ELSE data
            IN IF data.form = "sealed" => data.key = returned'.args[1]
               THEN /\ ~returned'.value.threw
                    /\ RestoredPath \in DOMAIN files'
                    /\ files'[RestoredPath] =
                         IF inner.form = "gzip" THEN inner.body ELSE inner
               ELSE /\ returned'.value.threw
                    /\ files' = files]_vars

\* the leading token of the parsed text, in upper case
ParsedLead == UpperCase(returned'.args[1].lead)

\* the keywords of a class
KeywordSet(class) == {Keywords[class][i] : i \in 1..Len(Keywords[class])}

\* C25: parse classifies a statement by its leading token: a token that is
\* a DML, DDL, DCL or TCL keyword (GRANT and REVOKE included) is the type,
\* and a token that is none of them (SELECTED, DROPS) gives valid = false
\* with the error of an unknown statement type.
C25_ClassifiesByLeadingToken ==
    [][returned'.method = "parse" =>
         IF ParsedLead \in KeywordSet("DML") \cup KeywordSet("DDL")
                           \cup KeywordSet("DCL") \cup KeywordSet("TCL")
         THEN returned'.value.type = ParsedLead
         ELSE /\ ~returned'.value.valid
              /\ returned'.value.error = "Unknown SQL statement type"]_vars

RECURSIVE CountMarks(_)
CountMarks(text) ==
    IF Len(text) = 0 THEN 0
    ELSE (IF SubSeq(text, 1, 1) = "?" THEN 1 ELSE 0)
         + CountMarks(SubSeq(text, 2, Len(text)))

\* the WHERE conditions, each with the placeholders of its own parameters,
\* joined by their conjunctions
RECURSIVE JoinedConditions(_, _)
JoinedConditions(where, i) ==
    IF i > Len(where) THEN ""
    ELSE (IF i > 1 THEN " " \o where[i].conjunction \o " " ELSE "")
         \o where[i].column \o " " \o where[i].operator \o " "
         \o (IF where[i].isIn \/ where[i].isBetween \/ where[i].operator \in {"IS", "IS NOT"}
             THEN where[i].value.s ELSE "?")
         \o JoinedConditions(where, i + 1)

\* the text that follows WHERE in an emitted statement, up to HAVING
WhereText(sql) ==
    LET RECURSIVE from(_)
        from(i) ==
            IF i + 6 > Len(sql) THEN ""
            ELSE IF SubSeq(sql, i, i + 6) = " WHERE "
            THEN SubSeq(sql, i + 7, Len(sql))
            ELSE from(i + 1)
        RECURSIVE upto(_, _)
        upto(text, i) ==
            IF i + 7 > Len(text) THEN text
            ELSE IF SubSeq(text, i, i + 7) = " HAVING " THEN SubSeq(text, 1, i - 1)
            ELSE upto(text, i + 1)
    IN upto(from(1), 1)

\* C28: toSQL() emits sql whose placeholders match params index for index,
\* whatever the chain of where, orWhere, whereIn, whereBetween, whereNull,
\* whereNotNull, having, set and values calls: as many ? as params, the
\* params being those of the SET list, then of the WHERE conditions, then of
\* HAVING, in the order of their ?; consecutive WHERE conditions are joined
\* by their AND / OR.
C28_PlaceholdersMatchParams ==
    [][(/\ returned'.method = "toSQL"
        /\ ~returned'.value.threw) =>
          LET q == returned'.args[1]
              out == returned'.value
          IN /\ CountMarks(out.sql) = Len(out.params)
             /\ q.type \in {"SELECT", "UPDATE"} =>
                   /\ WhereText(out.sql)
                        = JoinedConditions(q.where, 1)
                   /\ out.params =
                        (IF q.type = "UPDATE"
                         THEN [i \in 1..Len(q.set) |-> q.set[i].v] ELSE <<>>)
                        \o q.whereParams
                        \o (IF q.type = "SELECT"
                            THEN [i \in 1..Len(q.having) |-> q.having[i].value]
                            ELSE <<>>)]_vars

\* C29: when set() adds a new key to a full cache, the entry it evicts is
\* the least recently used one: an entry that get() has just read, and that
\* has not expired, is not the one evicted while another entry exists.
C29_EvictsLeastRecentlyUsed ==
    [][(/\ returned.method = "get"
        /\ returned.value # Undefined
        /\ returned'.method = "set"
        /\ cache'.stats.evictions > cache.stats.evictions
        /\ Len(cache.entries) >= 2
        /\ now <= CacheItem(cache.entries, returned.args[1]).expires) =>
          CacheHas(cache'.entries, returned.args[1])]_vars

\* C30: UPDATE t SET a = ?, b = ? with [x, y] leaves every matching row with
\* a = x and b = y, however many rows match.
C30_SetPlaceholdersPerRow ==
    [][(/\ ExecuteStep
        /\ last'.sql.kind = "UPDATE"
        /\ OnRelation(last'.sql)
        /\ ~HasPlaceholder(last'.sql.where)
        /\ Len(last'.params) = Len(last'.sql.setPairs)
        /\ \A j \in 1..Len(last'.sql.setPairs) :
               last'.sql.setPairs[j].hasVal /\ IsPlaceholder(last'.sql.setPairs[j].val)
        /\ PlainRows(tables[last'.sql.tableName].rows)) =>
          LET name == last'.sql.tableName
              rows == tables[name].rows
              hit == Satisfying(rows, last'.sql.where, last'.params, 0)
          IN /\ last'.result.success
             /\ name \in DOMAIN tables'
             /\ Len(tables'[name].rows) = Len(rows)
             /\ \A i \in hit : \A j \in 1..Len(last'.sql.setPairs) :
                   RowGet(tables'[name].rows[i], last'.sql.setPairs[j].col)
                     = last'.params[j]]_vars

\* the connection that the caller of request r holds, 0 when it holds none
Held(r) ==
    IF pool.requests[r].outcome = "resolved" /\ ~pool.requests[r].released
    THEN pool.requests[r].conn
    ELSE 0

\* C31: the live connections, available and allocated, are never more than
\* max.
C31_PoolSizeBound ==
    Len(pool.available) + Cardinality(pool.allocated) <= PoolMax

\* C32: no connection is both available and allocated, none is available
\* twice, and no two callers hold the same connection.
C32_ExclusiveOwnership ==
    /\ \A i \in 1..Len(pool.available) :
          /\ pool.available[i] \notin pool.allocated
          /\ \A j \in 1..Len(pool.available) :
                pool.available[i] = pool.available[j] => i = j
    /\ \A r1 \in Requests, r2 \in Requests :
          (Held(r1) # 0 /\ Held(r1) = Held(r2)) => r1 = r2

\* C33: a request that timed out is no entry of the pending queue, and every
\* allocated connection is held by a caller, who can release it.
C33_RejectedRequestLeavesQueue ==
    /\ \A i \in 1..Len(pool.pending) :
          pool.requests[pool.pending[i]].outcome # "rejected"
    /\ \A c \in pool.allocated : \E r \in Requests : Held(r) = c

\* C34: one release() of an allocated connection while requests are pending,
\* none of them timed out, takes the oldest of them off the queue and
\* resolves it with a connection in that same call, with or without a
\* validator.
C34_HandOffOnRelease ==
    [][(/\ returned'.method = "release"
        /\ ~returned'.args[2]
        /\ returned'.args[1] \in pool.allocated
        /\ pool.pending # <<>>
        /\ \A i \in 1..Len(pool.pending) :
              pool.requests[pool.pending[i]].outcome = "") =>
          /\ pool'.pending = Tail(pool.pending)
          /\ pool'.requests[Head(pool.pending)].outcome = "resolved"
          /\ pool'.requests[Head(pool.pending)].conn \in pool'.allocated]_vars

\* C35: the cache never holds more than maxSize entries; a set() of a key
\* that is present replaces its value and leaves every other entry in
\* place; get() returns no value of an entry whose expiry time has passed.
C35_CacheCapacity ==
    [][/\ Len(cache'.entries) <= MaxSize
       /\ (returned'.method = "set" /\ now' = now
             /\ CacheHas(cache.entries, returned'.args[1])) =>
            /\ Len(cache'.entries) = Len(cache.entries)
            /\ \A i \in 1..Len(cache.entries) :
                 IF cache.entries[i].key = returned'.args[1]
                 THEN cache'.entries[i].value = returned'.args[2]
                 ELSE cache'.entries[i] = cache.entries[i]
       /\ (returned'.method = "get" /\ now' = now
             /\ returned'.value # Undefined) =>
            /\ CacheHas(cache.entries, returned'.args[1])
            /\ now <= CacheItem(cache.entries, returned'.args[1]).expires
            /\ returned'.value = CacheItem(cache.entries, returned'.args[1]).value]_vars

\* the connections of address ip registered from time `from` on
RegisteredSince(srv, ip, from) ==
    {i \in 1..Len(srv.connections) :
        srv.connections[i].ip = ip /\ srv.connections[i].connectedAt >= from}

ServeStep == returned'.method = "handleCommand"

\* the user record that the credentials of `cmd` belong to
Verified(cmd) ==
    /\ cmd.database = MainDb
    /\ cmd.username \in DOMAIN users
    /\ users[cmd.username].passwordHash = Sha256(cmd.password)

\* C37: a query or execute command reaches execute() only on a connection
\* whose database and user were set by an auth command that succeeded, and
\* runs as that user; an auth command sets them, to its database and to the
\* user of its credentials, only when it succeeds; no other command and no
\* command on another connection changes them.
C37_QueryOnlyAfterAuth ==
    [][ServeStep =>
         LET connId == returned'.args[1]
             cmd == returned'.args[2]
             before == server.connections[connId]
             after == server'.connections[connId]
             reply == server'.written[Len(server'.written)].reply
             login == cmd.type = "auth" /\ Verified(cmd)
         IN /\ calls' # calls =>
                 /\ cmd.type \in {"query", "execute"}
                 /\ before.authenticated
                 /\ before.database = MainDb
                 /\ ~before.user.isNull
                 /\ ~last'.user.isNull
                 /\ last'.user.role = before.user.role
                 /\ last'.sql = cmd.sql
            /\ (before.database # "" \/ ~before.user.isNull) =>
                 before.authenticated
            /\ reply.success /\ cmd.type = "auth" => login
            /\ IF login
               THEN /\ reply.success
                    /\ after.authenticated
                    /\ after.database = cmd.database
                    /\ after.user = [isNull |-> FALSE, username |-> cmd.username,
                                     role |-> users[cmd.username].role]
               ELSE /\ after.user = before.user
                    /\ after.database = before.database
                    /\ after.authenticated = before.authenticated
            /\ \A other \in 1..Len(server.connections) :
                 other # connId =>
                    server'.connections[other] = server.connections[other]]_vars

\* a statement was executed for a connection that authenticated as bob after
\* a failed attempt, while another connection is not authenticated
C37_Witness ==
    /\ returned.method = "handleCommand"
    /\ returned.args[2].type \in {"query", "execute"}
    /\ calls > 0
    /\ server.connections[returned.args[1]].user.username = "bob"
    /\ \E other \in 1..Len(server.connections) :
          ~server.connections[other].authenticated

\* C38: the reply of the server to the k-th command sent settles the promise
\* of the k-th send() call and takes it off the pending list, and settles
\* no other promise.
C38_ReplySettlesItsRequest ==
    [][returned'.method = "handleResponse" /\ client'.read # client.read =>
         LET k == client'.read
         IN /\ client.requests[k] = "" =>
                 client'.requests[k] = IF returned'.args[1].error # ""
                                       THEN "rejected" ELSE "resolved"
            /\ \A i \in 1..Len(client'.pending) : client'.pending[i].request # k
            /\ \A r \in 1..Len(client.requests) :
                 r # k => client'.requests[r] = client.requests[r]]_vars

\* the intervals whose callback sends get_changes when it runs
Polling(sl) == IF sl.connected /\ sl.replicating THEN sl.timers ELSE {}

\* C39: at most one interval of a slave sends get_changes at any time; once
\* stop() was called no interval sends, no request is written and connect()
\* is not called again.
C39_OnePollingLoop ==
    [][/\ Cardinality(Polling(slave')) <= 1
       /\ slave.stopped =>
            /\ Polling(slave') = {}
            /\ slave'.sent = slave.sent
            /\ Len(slave'.sockets) = Len(slave.sockets)]_vars

\* the names recorded in the migrations table
Recorded ==
    IF MigrationsTable \in DOMAIN tables /\ tables[MigrationsTable].isArray
    THEN {RowGet(tables[MigrationsTable].rows[i], "name") :
             i \in 1..Len(tables[MigrationsTable].rows)}
    ELSE {}

\* C40: a run of migrate() records a file and reports success for it only if
\* no statement of its UP section failed; a file with a failing statement is
\* reported with success false, is the last one reported, and is not
\* recorded.
C40_RecordsOnlyFullSuccess ==
    \A f \in migration.failed :
        /\ Str(f) \notin Recorded
        /\ \A i \in 1..Len(migration.results) :
              migration.results[i].file = f => ~migration.results[i].success
        /\ (~migration.running /\ returned.method = "migrate") =>
              /\ migration.results # <<>>
              /\ migration.results[Len(migration.results)].file = f
====
